---------------------------- MODULE Spec2Model ----------------------------
(***************************************************************************)
(* A model of the sand chess engine: the board state machine (FEN parse,   *)
(* toggle_piece, make_move, undo_move), pseudo-legal move generation and   *)
(* the legality filter, the perft recursion, and the search control plane. *)
(*                                                                         *)
(* Conventions.  A bitboard (u64) is the set of its set bits, a subset of  *)
(* 0..63; XOR on bitboards is symmetric difference.  A Zobrist hash is the *)
(* set of the table keys XOR-ed into it (each key a distinct integer id),  *)
(* so XOR of hashes is again symmetric difference: two hashes that differ  *)
(* as sets differ for every choice of linearly independent key values.     *)
(* Option<T> is a sequence of length 0 (None) or 1 (Some).  The model      *)
(* follows a release build: debug assertions are elided and recorded in    *)
(* ghost flags; an out-of-bounds index panics in every build.              *)
(***************************************************************************)
EXTENDS Integers, Sequences, FiniteSets, TLC

---------------------------------------------------------------------------
(* chess/board.rs: basic types *)

BOARD_WIDTH == 8
BOARD_SIZE == 64

White == 0
Black == 1

Pawn == 0
Knight == 1
Bishop == 2
Rook == 3
Queen == 4
King == 5
PieceNone == 6

PIECE_TYPES == <<Pawn, Knight, Bishop, Rook, Queen, King>>

WK == 1
WQ == 2
BK == 4
BQ == 8

Squares == 0 .. (BOARD_SIZE - 1)
SquareSeq == [i \in 1 .. BOARD_SIZE |-> i - 1]

toggle(color) == 1 - color

to_square(rank, file) == rank * BOARD_WIDTH + file

valid_axis(axis) == axis >= 0 /\ axis < BOARD_WIDTH

RANKS == [r \in 0 .. 7 |-> {s \in Squares : s \div BOARD_WIDTH = r}]

Xor(a, b) == (a \ b) \cup (b \ a)

\* bitboard.ones_iter(): the set bits in ascending order
ones_iter(bitboard) == SelectSeq(SquareSeq, LAMBDA s : s \in bitboard)

\* u64::trailing_zeros(): the lowest set bit, 64 for an empty bitboard
trailing_zeros(bitboard) ==
    IF bitboard = {} THEN BOARD_SIZE
    ELSE CHOOSE s \in bitboard : \A t \in bitboard : s <= t

\* the castling-rights mask as the set of its flags; `rights & !flag`
HasRight(rights, flag) == (rights \div flag) % 2 = 1
ClearRight(rights, flag) == IF HasRight(rights, flag) THEN rights - flag ELSE rights

---------------------------------------------------------------------------
(* chess/zobrist.rs: the key tables, each key a distinct id *)

ZOBRIST_PIECE(color, piece, square) == color * 384 + piece * 64 + square
ZOBRIST_SIDE == 768
ZOBRIST_CASTLING(rights) == 769 + rights
ZOBRIST_EN_PASSANT(file) == 785 + file

---------------------------------------------------------------------------
(* engine/evaluation.rs: piece values, phase weights, piece-square tables *)

PIECE_VALUES == <<100, 320, 330, 500, 900, 20000, 0>>
PHASE_VALUE == <<0, 1, 1, 2, 4, 0>>

PST ==
  <<
    <<
       <<0, 0>>, <<0, 0>>, <<0, 0>>, <<0, 0>>, <<0, 0>>, <<0, 0>>, <<0, 0>>, <<0, 0>>,
       <<98, 178>>, <<134, 173>>, <<61, 158>>, <<95, 134>>, <<68, 147>>, <<126, 132>>, <<34, 165>>, <<-11, 187>>,
       <<-6, 94>>, <<7, 100>>, <<26, 85>>, <<31, 67>>, <<65, 56>>, <<56, 53>>, <<25, 82>>, <<-20, 84>>,
       <<-14, 32>>, <<13, 24>>, <<6, 13>>, <<21, 5>>, <<23, -2>>, <<12, 4>>, <<17, 17>>, <<-23, 17>>,
       <<-27, 13>>, <<-2, 9>>, <<-5, -3>>, <<12, -7>>, <<17, -7>>, <<6, -8>>, <<10, 3>>, <<-25, -1>>,
       <<-26, 4>>, <<-4, 7>>, <<-4, -6>>, <<-10, 1>>, <<3, 0>>, <<3, -5>>, <<33, -1>>, <<-12, -8>>,
       <<-35, 13>>, <<-1, 8>>, <<-20, 8>>, <<-23, 10>>, <<-15, 13>>, <<24, 0>>, <<38, 2>>, <<-22, -7>>,
       <<0, 0>>, <<0, 0>>, <<0, 0>>, <<0, 0>>, <<0, 0>>, <<0, 0>>, <<0, 0>>, <<0, 0>>
    >>,
    <<
       <<-167, -58>>, <<-89, -38>>, <<-34, -13>>, <<-49, -28>>, <<61, -31>>, <<-97, -27>>, <<-15, -63>>, <<-107, -99>>,
       <<-73, -25>>, <<-41, -8>>, <<72, -25>>, <<36, -2>>, <<23, -9>>, <<62, -25>>, <<7, -24>>, <<-17, -52>>,
       <<-47, -24>>, <<60, -20>>, <<37, 10>>, <<65, 9>>, <<84, -1>>, <<129, -9>>, <<73, -19>>, <<44, -41>>,
       <<-9, -17>>, <<17, 3>>, <<19, 22>>, <<53, 22>>, <<37, 22>>, <<69, 11>>, <<18, 8>>, <<22, -18>>,
       <<-13, -18>>, <<4, -6>>, <<16, 16>>, <<13, 25>>, <<28, 16>>, <<19, 17>>, <<21, 4>>, <<-8, -18>>,
       <<-23, -23>>, <<-9, -3>>, <<12, -1>>, <<10, 15>>, <<19, 10>>, <<17, -3>>, <<25, -20>>, <<-16, -22>>,
       <<-29, -42>>, <<-53, -20>>, <<-12, -10>>, <<-3, -5>>, <<-1, -2>>, <<18, -20>>, <<-14, -23>>, <<-19, -44>>,
       <<-105, -29>>, <<-21, -51>>, <<-58, -23>>, <<-33, -15>>, <<-17, -22>>, <<-28, -18>>, <<-19, -50>>, <<-23, -64>>
    >>,
    <<
       <<-29, -14>>, <<4, -21>>, <<-82, -11>>, <<-37, -8>>, <<-25, -7>>, <<-42, -9>>, <<7, -17>>, <<-8, -24>>,
       <<-26, -8>>, <<16, -4>>, <<-18, 7>>, <<-13, -12>>, <<30, -3>>, <<59, -13>>, <<18, -4>>, <<-47, -14>>,
       <<-16, 2>>, <<37, -8>>, <<43, 0>>, <<40, -1>>, <<35, -2>>, <<50, 6>>, <<37, 0>>, <<-2, 4>>,
       <<-4, -3>>, <<5, 9>>, <<19, 12>>, <<50, 9>>, <<37, 14>>, <<37, 10>>, <<7, 3>>, <<-2, 2>>,
       <<-6, -6>>, <<13, 3>>, <<13, 13>>, <<26, 19>>, <<34, 7>>, <<12, 10>>, <<10, -3>>, <<4, -9>>,
       <<0, -12>>, <<15, -3>>, <<15, 8>>, <<15, 10>>, <<14, 13>>, <<27, 3>>, <<18, -7>>, <<10, -15>>,
       <<4, -14>>, <<15, -18>>, <<16, -7>>, <<0, -1>>, <<7, 4>>, <<21, -9>>, <<33, -15>>, <<1, -27>>,
       <<-33, -23>>, <<-3, -9>>, <<-14, -23>>, <<-21, -5>>, <<-13, -9>>, <<-12, -16>>, <<-39, -5>>, <<-21, -17>>
    >>,
    <<
       <<32, 13>>, <<42, 10>>, <<32, 18>>, <<51, 15>>, <<63, 12>>, <<9, 12>>, <<31, 8>>, <<43, 5>>,
       <<27, 11>>, <<32, 13>>, <<58, 13>>, <<62, 11>>, <<80, -3>>, <<67, 3>>, <<26, 8>>, <<44, 3>>,
       <<-5, 7>>, <<19, 7>>, <<26, 7>>, <<36, 5>>, <<17, 4>>, <<45, -3>>, <<61, -5>>, <<16, -3>>,
       <<-24, 4>>, <<-11, 3>>, <<7, 13>>, <<26, 1>>, <<24, 2>>, <<35, 1>>, <<-8, -1>>, <<-20, 2>>,
       <<-36, 3>>, <<-26, 5>>, <<-12, 8>>, <<-1, 4>>, <<9, -5>>, <<-7, -6>>, <<6, -8>>, <<-23, -11>>,
       <<-45, -4>>, <<-25, 0>>, <<-16, -5>>, <<-17, -1>>, <<3, -7>>, <<0, -12>>, <<-5, -8>>, <<-33, -16>>,
       <<-44, -6>>, <<-16, -6>>, <<-20, 0>>, <<-9, 2>>, <<-1, -9>>, <<11, -9>>, <<-6, -11>>, <<-71, -3>>,
       <<-19, -9>>, <<-13, 2>>, <<1, 3>>, <<17, -1>>, <<16, -5>>, <<7, -13>>, <<-37, 4>>, <<-26, -20>>
    >>,
    <<
       <<-28, -9>>, <<0, 22>>, <<29, 22>>, <<12, 27>>, <<59, 27>>, <<44, 19>>, <<43, 10>>, <<45, 20>>,
       <<-24, -17>>, <<-39, 20>>, <<-5, 32>>, <<1, 41>>, <<-16, 58>>, <<57, 25>>, <<28, 30>>, <<54, 0>>,
       <<-13, -20>>, <<-17, 6>>, <<7, 9>>, <<8, 49>>, <<29, 47>>, <<56, 35>>, <<47, 19>>, <<57, 9>>,
       <<-27, 3>>, <<-27, 22>>, <<-16, 24>>, <<-16, 45>>, <<-1, 57>>, <<17, 40>>, <<-2, 57>>, <<1, 36>>,
       <<-9, -18>>, <<-26, 28>>, <<-9, 19>>, <<-10, 47>>, <<-2, 31>>, <<-4, 34>>, <<3, 39>>, <<-3, 23>>,
       <<-14, -16>>, <<2, -27>>, <<-11, 15>>, <<-2, 6>>, <<-5, 9>>, <<2, 17>>, <<14, 10>>, <<5, 5>>,
       <<-35, -22>>, <<-8, -23>>, <<11, -30>>, <<2, -16>>, <<8, -16>>, <<15, -23>>, <<-3, -36>>, <<1, -32>>,
       <<-1, -33>>, <<-18, -28>>, <<-9, -22>>, <<10, -43>>, <<-15, -5>>, <<-25, -32>>, <<-31, -20>>, <<-50, -41>>
    >>,
    <<
       <<-65, -74>>, <<23, -35>>, <<16, -18>>, <<-15, -18>>, <<-56, -11>>, <<-34, 15>>, <<2, 4>>, <<13, -17>>,
       <<29, -12>>, <<-1, 17>>, <<-20, 14>>, <<-7, 17>>, <<-8, 17>>, <<-4, 38>>, <<-38, 23>>, <<-29, 11>>,
       <<-9, 10>>, <<24, 17>>, <<2, 23>>, <<-16, 15>>, <<-20, 20>>, <<6, 45>>, <<22, 44>>, <<-22, 13>>,
       <<-17, -8>>, <<-20, 22>>, <<-12, 24>>, <<-27, 27>>, <<-30, 26>>, <<-25, 33>>, <<-14, 26>>, <<-36, 3>>,
       <<-49, -18>>, <<-1, -4>>, <<-27, 21>>, <<-39, 24>>, <<-46, 27>>, <<-44, 23>>, <<-33, 9>>, <<-51, -11>>,
       <<-14, -19>>, <<-14, -3>>, <<-22, 11>>, <<-46, 21>>, <<-44, 23>>, <<-30, 16>>, <<-15, 7>>, <<-27, -9>>,
       <<1, -27>>, <<7, -11>>, <<-8, 4>>, <<-64, 13>>, <<-43, 14>>, <<-16, 4>>, <<9, -5>>, <<8, -17>>,
       <<-15, -53>>, <<36, -34>>, <<12, -21>>, <<-54, -11>>, <<8, -28>>, <<-28, -14>>, <<24, -24>>, <<14, -43>>
    >>
  >>

WAdd(a, b) == <<a[1] + b[1], a[2] + b[2]>>
WSub(a, b) == <<a[1] - b[1], a[2] - b[2]>>

---------------------------------------------------------------------------
(* chess/board.rs: Board and toggle_piece *)

EmptyBoard ==
    [pieces |-> [s \in Squares |-> <<PieceNone, White>>],
     bitboards |-> [c \in {White, Black} |-> [p \in 0 .. 5 |-> {}]],
     occupancies |-> [c \in {White, Black} |-> {}],
     zobrist |-> {},
     en_passant_square |-> <<>>,
     halfmove_clock |-> 0,
     castling_rights |-> 0,
     side_to_move |-> White,
     bonus |-> [c \in {White, Black} |-> <<0, 0>>],
     material |-> [c \in {White, Black} |-> 0],
     phase |-> 0]

\* the debug assertion at the head of toggle_piece
toggle_precondition(board, square, piece_type, color) ==
    \/ board.pieces[square][1] = PieceNone
    \/ board.pieces[square] = <<piece_type, color>>

\* PHASE_VALUE and PST have six rows: indexing them with Piece::None panics
toggle_panics(piece_type) == piece_type = PieceNone

\* a toggle_piece that leaves the colour of the removed piece in the mailbox
toggle_piece_keeps_color(board, square, piece_type, color) ==
    LET square_lookup == IF color = White
                         THEN to_square(7 - square \div 8, square % 8)  \* square ^ 56
                         ELSE square
        pst == PST[piece_type + 1][square_lookup + 1]
        add == board.pieces[square][1] = PieceNone
    IN  [board EXCEPT
           !.phase = IF add THEN @ + PHASE_VALUE[piece_type + 1]
                            ELSE @ - PHASE_VALUE[piece_type + 1],
           !.bonus[color] = IF add THEN WAdd(@, pst) ELSE WSub(@, pst),
           !.material[color] = IF add THEN @ + PIECE_VALUES[piece_type + 1]
                                      ELSE @ - PIECE_VALUES[piece_type + 1],
           !.pieces[square] = IF add THEN <<piece_type, color>>
                                     ELSE <<PieceNone, color>>,
           !.bitboards[color][piece_type] = Xor(@, {square}),
           !.occupancies[color] = Xor(@, {square}),
           !.zobrist = Xor(@, {ZOBRIST_PIECE(color, piece_type, square)})]

toggle_piece(board, square, piece_type, color) ==
    LET square_lookup == IF color = White
                         THEN to_square(7 - square \div 8, square % 8)  \* square ^ 56
                         ELSE square
        pst == PST[piece_type + 1][square_lookup + 1]
        add == board.pieces[square][1] = PieceNone
    IN  [board EXCEPT
           !.phase = IF add THEN @ + PHASE_VALUE[piece_type + 1]
                            ELSE @ - PHASE_VALUE[piece_type + 1],
           !.bonus[color] = IF add THEN WAdd(@, pst) ELSE WSub(@, pst),
           !.material[color] = IF add THEN @ + PIECE_VALUES[piece_type + 1]
                                      ELSE @ - PIECE_VALUES[piece_type + 1],
           !.pieces[square] = IF add THEN <<piece_type, color>>
                                     ELSE <<PieceNone, White>>,
           !.bitboards[color][piece_type] = Xor(@, {square}),
           !.occupancies[color] = Xor(@, {square}),
           !.zobrist = Xor(@, {ZOBRIST_PIECE(color, piece_type, square)})]

\* A run of toggle_piece calls <<square, piece, color>>.  ok records whether
\* every call met the debug assertion; panic, whether one indexed out of
\* bounds (the program stops there).
RECURSIVE toggle_all(_, _)
toggle_all(st, calls) ==
    IF calls = <<>> \/ st.panic THEN st
    ELSE LET c == Head(calls)
         IN  IF toggle_panics(c[2])
             THEN [st EXCEPT !.panic = TRUE]
             ELSE toggle_all(
                    [b |-> toggle_piece(st.b, c[1], c[2], c[3]),
                     ok |-> st.ok /\ toggle_precondition(st.b, c[1], c[2], c[3]),
                     panic |-> FALSE],
                    Tail(calls))

---------------------------------------------------------------------------
(* chess/moves.rs and chess/attacks/tables.rs: the packed 16-bit Move *)

Quiet == 0
DoublePawnPush == 1
KingSideCastle == 2
QueenSideCastle == 3
Capture == 4
EnPassantCapture == 5
Invalid == 6

FLAGS_LUT ==
    << <<Quiet, PieceNone>>, <<DoublePawnPush, PieceNone>>,
       <<KingSideCastle, PieceNone>>, <<QueenSideCastle, PieceNone>>,
       <<Capture, PieceNone>>, <<EnPassantCapture, PieceNone>>,
       <<Invalid, PieceNone>>, <<Invalid, PieceNone>>,
       <<Quiet, Knight>>, <<Quiet, Bishop>>, <<Quiet, Rook>>, <<Quiet, Queen>>,
       <<Capture, Knight>>, <<Capture, Bishop>>, <<Capture, Rook>>, <<Capture, Queen>> >>

\* a | b on 4-bit values
BitOr4(a, b) ==
    LET bitAt(x, i) == (x \div (2 ^ i)) % 2
        or(i) == IF bitAt(a, i) = 1 \/ bitAt(b, i) = 1 THEN 2 ^ i ELSE 0
    IN  or(0) + or(1) + or(2) + or(3)

MoveNew(from, to, move_type, promotion) ==
    LET promotion_bits == IF promotion # PieceNone THEN 8 + (promotion - 1) ELSE 0
    IN  from + to * 64 + BitOr4(move_type, promotion_bits) * 4096

get_from(mov) == mov % 64
get_to(mov) == (mov \div 64) % 64
get_flags(mov) == FLAGS_LUT[((mov \div 4096) % 16) + 1]
move_type_of(mov) == get_flags(mov)[1]
promotion_of(mov) == get_flags(mov)[2]

---------------------------------------------------------------------------
(* chess/make_move.rs *)

update_rights_on_rook_change(rights, square, color) ==
    IF square = 0 /\ color = White THEN ClearRight(rights, WQ)
    ELSE IF square = 7 /\ color = White THEN ClearRight(rights, WK)
    ELSE IF square = 56 /\ color = Black THEN ClearRight(rights, BQ)
    ELSE IF square = 63 /\ color = Black THEN ClearRight(rights, BK)
    ELSE rights

get_en_passant_target(to, color) ==
    IF color = White THEN to - BOARD_WIDTH ELSE to + BOARD_WIDTH

en_passant_key(ep) ==
    IF ep = <<>> THEN {} ELSE {ZOBRIST_EN_PASSANT(ep[1] % BOARD_WIDTH)}

\* update_zobrist that leaves the key of the old en-passant file in the hash
update_zobrist_keeps_old_en_passant(board, old_en_passant, old_rights) ==
    LET z1 == Xor(board.zobrist, {ZOBRIST_SIDE})
        z2 == IF old_en_passant # board.en_passant_square
              THEN Xor(z1, en_passant_key(board.en_passant_square))
              ELSE z1
        z3 == IF old_rights # board.castling_rights
              THEN Xor(Xor(z2, {ZOBRIST_CASTLING(old_rights)}),
                       {ZOBRIST_CASTLING(board.castling_rights)})
              ELSE z2
    IN  [board EXCEPT !.zobrist = z3]

\* the side, en-passant and castling deltas; piece keys are toggle_piece's
update_zobrist(board, old_en_passant, old_rights) ==
    LET z1 == Xor(board.zobrist, {ZOBRIST_SIDE})
        z2 == IF old_en_passant # board.en_passant_square
              THEN Xor(Xor(z1, en_passant_key(old_en_passant)),
                       en_passant_key(board.en_passant_square))
              ELSE z1
        z3 == IF old_rights # board.castling_rights
              THEN Xor(Xor(z2, {ZOBRIST_CASTLING(old_rights)}),
                       {ZOBRIST_CASTLING(board.castling_rights)})
              ELSE z2
    IN  [board EXCEPT !.zobrist = z3]

\* the rook's corner and destination of a castling move of `color`
castle_rook_squares(move_type, color) ==
    IF move_type = KingSideCastle
    THEN (IF color = White THEN <<7, 5>> ELSE <<63, 61>>)
    ELSE (IF color = White THEN <<0, 3>> ELSE <<56, 59>>)

\* the toggle_piece calls between lifting and landing the mover
special_toggles(move_type, to, color, captured) ==
    IF move_type = Capture THEN << <<to, captured[1], captured[2]>> >>
    ELSE IF move_type = EnPassantCapture
         THEN << <<get_en_passant_target(to, color), Pawn, toggle(color)>> >>
    ELSE IF move_type \in {KingSideCastle, QueenSideCastle}
         THEN LET r == castle_rook_squares(move_type, color)
              IN  << <<r[1], Rook, color>>, <<r[2], Rook, color>> >>
    ELSE <<>>

\* Board::make_move: [b, undo, ok, panic]
make_move(board, mov) ==
    LET from == get_from(mov)
        to == get_to(mov)
        move_type == move_type_of(mov)
        promotion == promotion_of(mov)
        captured == board.pieces[to]
        captured_piece == captured[1]
        piece_type == board.pieces[from][1]
        final_type == IF promotion # PieceNone THEN promotion ELSE piece_type
        color == board.side_to_move
        enemy == toggle(color)
        st == toggle_all([b |-> board, ok |-> TRUE, panic |-> FALSE],
                  << <<from, piece_type, color>> >>
                  \o special_toggles(move_type, to, color, captured)
                  \o << <<to, final_type, color>> >>)
        old_en_passant == board.en_passant_square
        old_clock == board.halfmove_clock
        old_rights == board.castling_rights
        rights1 == IF piece_type = King
                   THEN (IF color = White
                         THEN ClearRight(ClearRight(old_rights, WK), WQ)
                         ELSE ClearRight(ClearRight(old_rights, BK), BQ))
                   ELSE IF piece_type = Rook
                        THEN update_rights_on_rook_change(old_rights, from, color)
                        ELSE old_rights
        rights2 == IF captured_piece = Rook
                   THEN update_rights_on_rook_change(rights1, to, enemy)
                   ELSE rights1
        moved == [st.b EXCEPT
                    !.en_passant_square =
                        IF move_type = DoublePawnPush
                        THEN <<get_en_passant_target(to, color)>> ELSE <<>>,
                    !.halfmove_clock =
                        IF piece_type = Pawn \/ move_type = Capture
                        THEN 0 ELSE (old_clock + 1) % 256,
                    !.castling_rights = rights2,
                    !.side_to_move = enemy]
    IN  [b |-> IF st.panic THEN st.b ELSE update_zobrist(moved, old_en_passant, old_rights),
         undo |-> [mov |-> mov,
                   captured |-> captured_piece,
                   en_passant_square |-> old_en_passant,
                   halfmove_clock |-> old_clock,
                   castling_rights |-> old_rights,
                   zobrist |-> board.zobrist],
         ok |-> st.ok,
         panic |-> st.panic]

\* Board::undo_move: [b, ok, panic]
undo_move(board, undo) ==
    LET mov == undo.mov
        from == get_from(mov)
        to == get_to(mov)
        move_type == move_type_of(mov)
        promotion == promotion_of(mov)
        piece_type == board.pieces[to][1]
        final_type == IF promotion # PieceNone THEN promotion ELSE piece_type
        initial_type == IF promotion # PieceNone THEN Pawn ELSE piece_type
        color == toggle(board.side_to_move)
        restored == [board EXCEPT
                       !.en_passant_square = undo.en_passant_square,
                       !.halfmove_clock = undo.halfmove_clock,
                       !.castling_rights = undo.castling_rights,
                       !.side_to_move = color]
        st == toggle_all([b |-> restored, ok |-> TRUE, panic |-> FALSE],
                  << <<to, final_type, color>> >>
                  \o special_toggles(move_type, to, color, <<undo.captured, toggle(color)>>)
                  \o << <<from, initial_type, color>> >>)
    IN  [b |-> IF st.panic THEN st.b ELSE [st.b EXCEPT !.zobrist = undo.zobrist],
         ok |-> st.ok,
         panic |-> st.panic]

---------------------------------------------------------------------------
(* chess/attacks/tables.rs and chess/attacks/movegen.rs: attack tables *)

PAWN_CAPTURE_OFFSETS_WHITE == << <<1, -1>>, <<1, 1>> >>
PAWN_CAPTURE_OFFSETS_BLACK == << <<-1, -1>>, <<-1, 1>> >>
KNIGHT_OFFSETS ==
    << <<2, 1>>, <<1, 2>>, <<-1, 2>>, <<-2, 1>>, <<-2, -1>>, <<-1, -2>>, <<1, -2>>, <<2, -1>> >>
KING_OFFSETS ==
    << <<1, 0>>, <<1, 1>>, <<0, 1>>, <<-1, 1>>, <<-1, 0>>, <<-1, -1>>, <<0, -1>>, <<1, -1>> >>
ROOK_DIRECTIONS == << <<1, 0>>, <<-1, 0>>, <<0, 1>>, <<0, -1>> >>
BISHOP_DIRECTIONS == << <<1, 1>>, <<1, -1>>, <<-1, 1>>, <<-1, -1>> >>

gen_jumping_attacks(square, offsets) ==
    LET rank == square \div BOARD_WIDTH
        file == square % BOARD_WIDTH
    IN  {to_square(rank + offsets[i][1], file + offsets[i][2]) :
            i \in {j \in 1 .. Len(offsets) :
                     valid_axis(rank + offsets[j][1]) /\ valid_axis(file + offsets[j][2])}}

gen_edge_mask(square) ==
    LET FILE_BB_1 == {s \in Squares : s % 8 = 0}
        FILE_BB_8 == {s \in Squares : s % 8 = 7}
        edges == <<RANKS[0], RANKS[7], FILE_BB_1, FILE_BB_8>>
    IN  UNION {edges[i] : i \in {j \in 1 .. 4 : square \notin edges[j]}}

\* one ray of gen_sliding_attacks: extended until it holds an occupied square
RECURSIVE sliding_ray(_, _, _, _, _)
sliding_ray(rank, file, dr, df, occupancy) ==
    IF ~(valid_axis(rank) /\ valid_axis(file)) THEN {}
    ELSE LET s == to_square(rank, file)
         IN  IF s \in occupancy THEN {s}
             ELSE {s} \cup sliding_ray(rank + dr, file + df, dr, df, occupancy)

gen_sliding_attacks(square, occupancy, directions) ==
    LET rank == square \div BOARD_WIDTH
        file == square % BOARD_WIDTH
    IN  UNION {sliding_ray(rank + directions[i][1], file + directions[i][2],
                           directions[i][1], directions[i][2], occupancy) :
                 i \in 1 .. Len(directions)}

KNIGHT_ATTACKS == [s \in Squares |-> gen_jumping_attacks(s, KNIGHT_OFFSETS)]
KING_ATTACKS == [s \in Squares |-> gen_jumping_attacks(s, KING_OFFSETS)]
WPAWN_ATTACKS == [s \in Squares |-> gen_jumping_attacks(s, PAWN_CAPTURE_OFFSETS_WHITE)]
BPAWN_ATTACKS == [s \in Squares |-> gen_jumping_attacks(s, PAWN_CAPTURE_OFFSETS_BLACK)]
BISHOP_RM ==
    [s \in Squares |-> gen_sliding_attacks(s, {}, BISHOP_DIRECTIONS) \ gen_edge_mask(s)]
ROOK_RM ==
    [s \in Squares |-> gen_sliding_attacks(s, {}, ROOK_DIRECTIONS) \ gen_edge_mask(s)]

\* SLIDING_ATTACKS[get_bishop_index(square, occupancy)]: the slot the masked
\* occupancy hashes to holds the slider's attack set for that occupancy
bishop_attacks(square, occupancy) ==
    gen_sliding_attacks(square, occupancy \cap BISHOP_RM[square], BISHOP_DIRECTIONS)

rook_attacks(square, occupancy) ==
    gen_sliding_attacks(square, occupancy \cap ROOK_RM[square], ROOK_DIRECTIONS)

---------------------------------------------------------------------------
(* chess/attacks/movegen.rs: pseudo-legal move generation *)

gen_pawn_pushes(square, occupancy, color) ==
    IF color = White
    THEN LET single == {square + 8} \cap (Squares \ occupancy)
             double == {s + 8 : s \in single \cap RANKS[2]} \ occupancy
         IN  single \cup double
    ELSE LET single == {square - 8} \cap (Squares \ occupancy)
             double == {s - 8 : s \in single \cap RANKS[5]} \ occupancy
         IN  single \cup double

gen_pawn_captures(square, capturable, color) ==
    (IF color = White THEN WPAWN_ATTACKS[square] ELSE BPAWN_ATTACKS[square]) \cap capturable

occupancy_all(board) == board.occupancies[White] \cup board.occupancies[Black]

gen_piece_moves(square, piece, color, board) ==
    LET friendly == board.occupancies[color]
        enemy == board.occupancies[toggle(color)]
        occ == friendly \cup enemy
        en_passant_bit == {board.en_passant_square[i] :
                             i \in 1 .. Len(board.en_passant_square)}
        attacks ==
            CASE piece = Pawn ->
                   gen_pawn_pushes(square, occ, color)
                   \cup gen_pawn_captures(square, en_passant_bit \cup enemy, color)
              [] piece = Knight -> KNIGHT_ATTACKS[square]
              [] piece = Bishop -> bishop_attacks(square, occ)
              [] piece = Rook -> rook_attacks(square, occ)
              [] piece = Queen -> bishop_attacks(square, occ) \cup rook_attacks(square, occ)
              [] piece = King -> KING_ATTACKS[square]
    IN  attacks \ friendly

get_move_type(piece, to, from, board) ==
    IF piece = Pawn /\ <<to>> = board.en_passant_square THEN EnPassantCapture
    ELSE IF board.pieces[to][1] # PieceNone THEN Capture
    ELSE IF piece = Pawn /\ (to - from = 16 \/ from - to = 16) THEN DoublePawnPush
    ELSE Quiet

push_with_promotions(from, to, move_type, piece, color) ==
    LET promotion_rank == IF color = White THEN RANKS[7] ELSE RANKS[0]
    IN  IF piece = Pawn /\ to \in promotion_rank
        THEN <<MoveNew(from, to, move_type, Knight), MoveNew(from, to, move_type, Bishop),
               MoveNew(from, to, move_type, Rook), MoveNew(from, to, move_type, Queen)>>
        ELSE <<MoveNew(from, to, move_type, PieceNone)>>

RECURSIVE Flatten(_)
Flatten(seqs) == IF seqs = <<>> THEN <<>> ELSE Head(seqs) \o Flatten(Tail(seqs))

get_castling_moves(board) ==
    LET occ == occupancy_all(board)
        rights == board.castling_rights
        castle(flag, to, king, move_type) ==
            IF HasRight(rights, flag) /\ to \notin occ
            THEN <<MoveNew(king, to, move_type, PieceNone)>> ELSE <<>>
    IN  IF board.side_to_move = White
        THEN castle(WK, 6, 4, KingSideCastle) \o castle(WQ, 2, 4, QueenSideCastle)
        ELSE castle(BK, 62, 60, KingSideCastle) \o castle(BQ, 58, 60, QueenSideCastle)

gen_color_moves(board) ==
    LET color == board.side_to_move
        from_square(piece, from) ==
            LET dests == ones_iter(gen_piece_moves(from, piece, color, board))
            IN  Flatten([i \in 1 .. Len(dests) |->
                    push_with_promotions(from, dests[i],
                        get_move_type(piece, dests[i], from, board), piece, color)])
        of_piece(piece) ==
            LET froms == ones_iter(board.bitboards[color][piece])
            IN  Flatten([i \in 1 .. Len(froms) |-> from_square(piece, froms[i])])
    IN  Flatten([i \in 1 .. 6 |-> of_piece(PIECE_TYPES[i])]) \o get_castling_moves(board)

is_square_attacked(square, attacker_color, board) ==
    LET occ == occupancy_all(board)
        bb == board.bitboards[attacker_color]
    IN  \/ gen_pawn_captures(square, bb[Pawn], toggle(attacker_color)) # {}
        \/ KNIGHT_ATTACKS[square] \cap bb[Knight] # {}
        \/ bishop_attacks(square, occ) \cap (bb[Bishop] \cup bb[Queen]) # {}
        \/ rook_attacks(square, occ) \cap (bb[Rook] \cup bb[Queen]) # {}
        \/ KING_ATTACKS[square] \cap bb[King] # {}

\* is_legal_move indexes the attack tables with trailing_zeros of the king
\* bitboard: 64, out of bounds, when that bitboard is empty
is_legal_move_panics(mov, board) ==
    /\ move_type_of(mov) \notin {KingSideCastle, QueenSideCastle}
    /\ board.bitboards[board.side_to_move][King] = {}

\* is_legal_move(mov, board), called on the board after make_move(mov)
is_legal_move(mov, board) ==
    LET move_type == move_type_of(mov)
        color == board.side_to_move
        king_bitboard == board.bitboards[color][King]
    IN  IF move_type \in {KingSideCastle, QueenSideCastle}
        THEN LET k == move_type = KingSideCastle
                 in_between == IF color = White
                               THEN (IF k THEN {5, 6} ELSE {1, 2, 3})
                               ELSE (IF k THEN {61, 62} ELSE {57, 58, 59})
                 through == IF color = White
                            THEN (IF k THEN {4, 5, 6} ELSE {4, 3, 2})
                            ELSE (IF k THEN {60, 61, 62} ELSE {60, 59, 58})
                 rook_bit == IF color = White
                             THEN (IF k THEN {5} ELSE {3})
                             ELSE (IF k THEN {61} ELSE {59})
                 occupancy_without_updated_pieces ==
                     occupancy_all(board) \ (king_bitboard \cup rook_bit)
             IN  /\ \A square \in through :
                        ~is_square_attacked(square, toggle(color), board)
                 /\ in_between \cap occupancy_without_updated_pieces = {}
        ELSE ~is_square_attacked(trailing_zeros(king_bitboard), toggle(color), board)

---------------------------------------------------------------------------
(* chess/board.rs: Board::new.  A FEN is the sequence of its whitespace-   *)
(* separated fields, each field the sequence of its characters.            *)

DigitValue ==
    [c \in {"0", "1", "2", "3", "4", "5", "6", "7", "8", "9"} |->
        CASE c = "0" -> 0 [] c = "1" -> 1 [] c = "2" -> 2 [] c = "3" -> 3 [] c = "4" -> 4
          [] c = "5" -> 5 [] c = "6" -> 6 [] c = "7" -> 7 [] c = "8" -> 8 [] c = "9" -> 9]

is_ascii_digit(c) == c \in DOMAIN DigitValue

\* Piece::from_char after to_ascii_lowercase: <<piece>> or <<>> (Err)
from_char(c) ==
    CASE c \in {"p", "P"} -> <<Pawn>>
      [] c \in {"n", "N"} -> <<Knight>>
      [] c \in {"b", "B"} -> <<Bishop>>
      [] c \in {"r", "R"} -> <<Rook>>
      [] c \in {"q", "Q"} -> <<Queen>>
      [] c \in {"k", "K"} -> <<King>>
      [] OTHER -> <<>>

is_uppercase(c) == c \in {"P", "N", "B", "R", "Q", "K"}

\* [err, board, rank, file] after the characters of the placement field
RECURSIVE parse_positioning_from(_, _)
parse_positioning_from(st, part) ==
    IF part = <<>> \/ st.err # "" THEN st
    ELSE LET chr == Head(part)
             next ==
               IF chr = "/"
               THEN IF st.rank = 0 THEN [st EXCEPT !.err = "too many ranks"]
                    ELSE [st EXCEPT !.rank = @ - 1, !.file = 0]
               ELSE IF is_ascii_digit(chr)
               THEN [st EXCEPT !.file = (@ + DigitValue[chr]) % 256]
               ELSE IF from_char(chr) = <<>>
               THEN [st EXCEPT !.err = "invalid character"]
               ELSE IF st.file >= BOARD_WIDTH
               THEN [st EXCEPT !.err = "file out of bounds"]
               ELSE [st EXCEPT
                       !.board = toggle_piece(@, to_square(st.rank, st.file),
                                     from_char(chr)[1],
                                     IF is_uppercase(chr) THEN White ELSE Black),
                       !.file = @ + 1]
         IN  parse_positioning_from(next, Tail(part))

parse_positioning(board, part) ==
    LET st == parse_positioning_from(
                  [err |-> "", board |-> board, rank |-> BOARD_WIDTH - 1, file |-> 0], part)
    IN  IF st.err # "" THEN st
        ELSE IF st.rank # 0 \/ st.file # BOARD_WIDTH
             THEN [st EXCEPT !.err = "incomplete board"]
             ELSE st

\* square_from_uci(..).ok(): Some(square) for a file a-h followed by a rank 1-8
square_from_uci(uci) ==
    LET files == <<"a", "b", "c", "d", "e", "f", "g", "h">>
    IN  IF /\ Len(uci) >= 2
           /\ \E f \in 1 .. 8 : files[f] = uci[1]
           /\ uci[2] \in {"1", "2", "3", "4", "5", "6", "7", "8"}
        THEN <<to_square(DigitValue[uci[2]] - 1,
                         (CHOOSE f \in 1 .. 8 : files[f] = uci[1]) - 1)>>
        ELSE <<>>

\* str::parse::<u8>(): Some(value) for a run of digits worth at most 255
RECURSIVE decimal_value(_, _)
decimal_value(acc, digits) ==
    IF digits = <<>> THEN acc
    ELSE decimal_value(IF acc > 255 THEN acc ELSE acc * 10 + DigitValue[Head(digits)],
                       Tail(digits))

parse_u8(part) ==
    IF part # <<>> /\ (\A i \in 1 .. Len(part) : is_ascii_digit(part[i]))
                   /\ decimal_value(0, part) <= 255
    THEN <<decimal_value(0, part)>> ELSE <<>>

castling_flag(chr) ==
    CASE chr = "K" -> WK [] chr = "Q" -> WQ [] chr = "k" -> BK [] chr = "q" -> BQ
      [] OTHER -> 0

RECURSIVE parse_castling(_, _)
parse_castling(rights, part) ==
    IF part = <<>> THEN rights
    ELSE parse_castling(
             IF castling_flag(Head(part)) # 0 /\ ~HasRight(rights, castling_flag(Head(part)))
             THEN rights + castling_flag(Head(part)) ELSE rights,
             Tail(part))

set_zobrist_fen(board) ==
    LET z1 == IF board.side_to_move = Black
              THEN Xor(board.zobrist, {ZOBRIST_SIDE}) ELSE board.zobrist
        z2 == Xor(z1, en_passant_key(board.en_passant_square))
    IN  [board EXCEPT !.zobrist = Xor(z2, {ZOBRIST_CASTLING(board.castling_rights)})]

\* Board::new: [err, board]; err = "" for Ok(board)
BoardNew(fen) ==
    IF Len(fen) < 1 THEN [err |-> "no piece placement part found", board |-> EmptyBoard]
    ELSE LET placed == parse_positioning(EmptyBoard, fen[1])
             side == IF Len(fen) >= 2 /\ fen[2] # <<>> /\ fen[2][1] = "b"
                     THEN Black ELSE White
             rights == IF Len(fen) >= 3 THEN parse_castling(0, fen[3]) ELSE 0
             ep == IF Len(fen) >= 4 THEN square_from_uci(fen[4]) ELSE <<>>
             clock == IF Len(fen) >= 5 /\ parse_u8(fen[5]) # <<>>
                      THEN parse_u8(fen[5])[1] ELSE 0
         IN  IF placed.err # "" THEN [err |-> placed.err, board |-> EmptyBoard]
             ELSE [err |-> "",
                   board |-> set_zobrist_fen(
                       [placed.board EXCEPT !.side_to_move = side,
                                            !.castling_rights = rights,
                                            !.en_passant_square = ep,
                                            !.halfmove_clock = clock])]

calculate_zobrist(board) ==
    LET piece_zobrist ==
            UNION {{ZOBRIST_PIECE(c, p, s) : s \in board.bitboards[c][p]} :
                      <<c, p>> \in {White, Black} \X (0 .. 5)}
        side_to_move_zobrist == IF board.side_to_move = Black THEN {ZOBRIST_SIDE} ELSE {}
    IN  Xor(Xor(Xor(piece_zobrist, side_to_move_zobrist),
                {ZOBRIST_CASTLING(board.castling_rights)}),
            en_passant_key(board.en_passant_square))

---------------------------------------------------------------------------
(* perft/perft_logic.rs: the perft transposition table *)

\* log2 of the number of PerftTT entries (PerftTT::new rounds to a power of two)
PerftIndexBits == 2

\* bit i of the 64-bit random key behind a symbolic key id
key_bit(key, i) == (key \div (2 ^ i)) % 2

\* PerftTT::index: the low bits of the xor of the keys
PerftTT_index(zobrist) ==
    LET parity(i) == Cardinality({k \in zobrist : key_bit(k, i) = 1}) % 2
        RECURSIVE sum(_)
        sum(i) == IF i = PerftIndexBits THEN 0 ELSE parity(i) * (2 ^ i) + sum(i + 1)
    IN  sum(0)

PerftTT_new ==
    [i \in 0 .. (2 ^ PerftIndexBits - 1) |-> [zobrist |-> {}, nodes |-> 0, depth |-> 0]]

\* PerftTT::probe: Some(nodes) or None
PerftTT_probe(table, zobrist, depth) ==
    LET e == table[PerftTT_index(zobrist)]
    IN  IF e.zobrist = zobrist /\ e.depth = depth THEN <<e.nodes>> ELSE <<>>

PerftTT_store(table, zobrist, depth, nodes) ==
    LET idx == PerftTT_index(zobrist)
    IN  IF depth >= table[idx].depth
        THEN [table EXCEPT ![idx] = [zobrist |-> zobrist, nodes |-> nodes, depth |-> depth]]
        ELSE table

---------------------------------------------------------------------------
(* FEN strings, as whitespace-separated fields of characters *)

\* rnbqkbnr/pppppppp/8/8/8/8/PPPPPPPP/RNBQKBNR w KQkq - 0 1
STARTPOS_FEN ==
    << <<"r", "n", "b", "q", "k", "b", "n", "r", "/", "p", "p", "p", "p", "p", "p", "p", "p",
    "/", "8", "/", "8", "/", "8", "/", "8", "/", "P", "P", "P", "P", "P", "P", "P", "P", "/",
    "R", "N", "B", "Q", "K", "B", "N", "R">>, <<"w">>, <<"K", "Q", "k", "q">>, <<"-">>,
    <<"0">>, <<"1">> >>

\* r3k2r/p1ppqpb1/bn2pnp1/3PN3/1p2P3/2N2Q1p/PPPBBPPP/R3K2R w KQkq - 0 1
KIWIPETE_FEN ==
    << <<"r", "3", "k", "2", "r", "/", "p", "1", "p", "p", "q", "p", "b", "1", "/", "b", "n",
    "2", "p", "n", "p", "1", "/", "3", "P", "N", "3", "/", "1", "p", "2", "P", "3", "/", "2",
    "N", "2", "Q", "1", "p", "/", "P", "P", "P", "B", "B", "P", "P", "P", "/", "R", "3", "K",
    "2", "R">>, <<"w">>, <<"K", "Q", "k", "q">>, <<"-">>, <<"0">>, <<"1">> >>

\* 8/2p5/3p4/KP5r/1R3p1k/8/4P1P1/8 w - - 0 1
ENDGAME_FEN ==
    << <<"8", "/", "2", "p", "5", "/", "3", "p", "4", "/", "K", "P", "5", "r", "/", "1", "R",
    "3", "p", "1", "k", "/", "8", "/", "4", "P", "1", "P", "1", "/", "8">>, <<"w">>, <<"-">>,
    <<"-">>, <<"0">>, <<"1">> >>

\* r3k2r/Pppp1ppp/1b3nbN/nP6/BBP1P3/q4N2/Pp1P2PP/R2Q1RK1 w kq - 0 1
PROMOTION_FEN ==
    << <<"r", "3", "k", "2", "r", "/", "P", "p", "p", "p", "1", "p", "p", "p", "/", "1", "b",
    "3", "n", "b", "N", "/", "n", "P", "6", "/", "B", "B", "P", "1", "P", "3", "/", "q", "4",
    "N", "2", "/", "P", "p", "1", "P", "2", "P", "P", "/", "R", "2", "Q", "1", "R", "K",
    "1">>, <<"w">>, <<"k", "q">>, <<"-">>, <<"0">>, <<"1">> >>

\* 7k/7p/8/8/8/8/P7/K7 w - - 0 1
PAWNS_FEN ==
    << <<"7", "k", "/", "7", "p", "/", "8", "/", "8", "/", "8", "/", "8", "/", "P", "7", "/",
    "K", "7">>, <<"w">>, <<"-">>, <<"-">>, <<"0">>, <<"1">> >>

\* 7k/7p/8/8/8/P7/8/K7 b - - 0 1
PAWNS_REPLY_FEN ==
    << <<"7", "k", "/", "7", "p", "/", "8", "/", "8", "/", "8", "/", "P", "7", "/", "8", "/",
    "K", "7">>, <<"b">>, <<"-">>, <<"-">>, <<"0">>, <<"1">> >>

\* 4k3/8/8/3p4/4P3/8/8/4K3 w - - 0 1
EXCHANGE_FEN ==
    << <<"4", "k", "3", "/", "8", "/", "8", "/", "3", "p", "4", "/", "4", "P", "3", "/", "8",
    "/", "8", "/", "4", "K", "3">>, <<"w">>, <<"-">>, <<"-">>, <<"0">>, <<"1">> >>

\* 4k3/8/8/3p4/4P3/8/5K2/8 b - - 0 1
EXCHANGE_REPLY_FEN ==
    << <<"4", "k", "3", "/", "8", "/", "8", "/", "3", "p", "4", "/", "4", "P", "3", "/",
    "8", "/", "5", "K", "2", "/", "8">>, <<"b">>, <<"-">>, <<"-">>, <<"0">>, <<"1">> >>

\* 6k1/8/8/1q6/8/8/8/4KB1R w K - 0 1
BISHOP_FEN ==
    << <<"6", "k", "1", "/", "8", "/", "8", "/", "1", "q", "6", "/", "8", "/", "8", "/",
    "8", "/", "4", "K", "B", "1", "R">>, <<"w">>, <<"K">>, <<"-">>, <<"0">>, <<"1">> >>

---------------------------------------------------------------------------
(* engine/evaluation.rs: the static evaluation *)

TOTAL_PHASE ==
    PHASE_VALUE[Pawn + 1] * 16 + PHASE_VALUE[Knight + 1] * 4 + PHASE_VALUE[Bishop + 1] * 4
        + PHASE_VALUE[Rook + 1] * 4 + PHASE_VALUE[Queen + 1] * 2

PHASE_SCALE == 256

\* integer division of Rust: the quotient is truncated toward zero
trunc_div(a, b) == IF a >= 0 THEN a \div b ELSE -((-a) \div b)

\* Board::evaluate: from White's perspective, in centipawns
evaluate(board) ==
    LET material_score == board.material[White] - board.material[Black]
        phase_ratio == (board.phase * PHASE_SCALE + (TOTAL_PHASE \div 2)) \div TOTAL_PHASE
        midgame_bonus == board.bonus[White][1] - board.bonus[Black][1]
        endgame_bonus == board.bonus[White][2] - board.bonus[Black][2]
        positional == trunc_div(midgame_bonus * phase_ratio
                                    + endgame_bonus * (PHASE_SCALE - phase_ratio),
                                PHASE_SCALE)
    IN  positional + material_score

---------------------------------------------------------------------------
(* chess/board.rs: the draw tests on the board *)

\* Board::is_insufficient_material; minors & (minors - 1) == 0 on a bitboard
\* that is not zero says that one bit is set
is_insufficient_material(board) ==
    LET both(piece_type) == board.bitboards[White][piece_type]
                                \cup board.bitboards[Black][piece_type]
        pawn_rook_queen == both(Pawn) \cup both(Rook) \cup both(Queen)
        bishop == both(Bishop)
        knight == both(Knight)
        minors == bishop \cup knight
        either_bare == \/ Cardinality(board.occupancies[White]) = 1
                       \/ Cardinality(board.occupancies[White]) = 1
        have_one_minor == minors = {} \/ Cardinality(minors) = 1
    IN  IF pawn_rook_queen # {} THEN FALSE
        ELSE either_bare /\ (have_one_minor \/ (bishop = {} /\ Cardinality(knight) <= 2))

---------------------------------------------------------------------------
(* engine/transposition.rs: the search transposition table *)

MAX_PLY == 64
CHECKMATE_SCORE == 30000
CHECKMATE_THRESHOLD == CHECKMATE_SCORE - 2 * MAX_PLY
INF == 32000

Exact == 0
Upper == 1
Lower == 2

BUCKET_SIZE == 2

Bound_from_score(score, alpha, beta) ==
    IF score >= beta THEN Lower
    ELSE IF score <= alpha THEN Upper
    ELSE Exact

decode_mate(score, ply) ==
    IF score > CHECKMATE_THRESHOLD THEN score + ply
    ELSE IF score < -CHECKMATE_THRESHOLD THEN score - ply
    ELSE score

encode_mate(score, ply) ==
    IF score > CHECKMATE_THRESHOLD THEN score - ply
    ELSE IF score < -CHECKMATE_THRESHOLD THEN score + ply
    ELSE score

\* a probe that takes every stored score for the exact one, whatever its bound
TTEntryData_probe_ignores_bound(e, alpha, beta, ply) == <<decode_mate(e.score, ply)>>

\* TTEntryData::probe: Some(score) or None; alpha and beta are narrowed in
\* copies local to the call
TTEntryData_probe(e, alpha, beta, ply) ==
    LET score == decode_mate(e.score, ply)
        alpha1 == IF e.bound = Lower /\ score > alpha THEN score ELSE alpha
        beta1 == IF e.bound = Upper /\ score < beta THEN score ELSE beta
    IN  IF e.bound = Exact THEN <<score>>
        ELSE IF alpha1 >= beta1 THEN <<score>>
        ELSE <<>>

\* TTEntry::default: key 0 is the xor of no key at all
TTEntry_default ==
    [key |-> {}, depth |-> 0, age |-> 0, score |-> 0, bound |-> Exact, best_move |-> 0]

\* TT::new with 2^bits buckets
TT_new(bits) ==
    [bits |-> bits,
     table |-> [i \in 0 .. (2 ^ bits - 1) |-> [j \in 1 .. BUCKET_SIZE |-> TTEntry_default]],
     used |-> 0]

\* TT::index: the low bits of the xor of the keys
TT_index(tt, key) ==
    LET parity(i) == Cardinality({k \in key : key_bit(k, i) = 1}) % 2
        RECURSIVE sum(_)
        sum(i) == IF i = tt.bits THEN 0 ELSE parity(i) * (2 ^ i) + sum(i + 1)
    IN  sum(0)

\* TT::probe: the first entry of the bucket with the key and enough depth
TT_probe(tt, key, depth) ==
    LET bucket == tt.table[TT_index(tt, key)]
        hits == {j \in 1 .. BUCKET_SIZE : bucket[j].key = key /\ bucket[j].depth >= depth}
    IN  IF hits = {} THEN <<>>
        ELSE <<bucket[CHOOSE j \in hits : \A k \in hits : j <= k]>>

\* a store that overwrites the first entry of the bucket whatever it holds
TT_store_first_entry(tt, key, depth, score, best_move, bound, age, ply) ==
    [tt EXCEPT !.table[0][1] =
        [key |-> key, depth |-> depth, age |-> age, score |-> score, bound |-> bound,
         best_move |-> best_move]]

\* TT::store
TT_store(tt, key, depth, score, best_move, bound, age, ply) ==
    LET idx == TT_index(tt, key)
        bucket == tt.table[idx]
        entry == [key |-> key, depth |-> depth, age |-> age,
                  score |-> encode_mate(score, ply), bound |-> bound,
                  best_move |-> best_move]
        same == {j \in 1 .. BUCKET_SIZE : bucket[j].key = key}
        first_same == CHOOSE j \in same : \A k \in same : j <= k
        old == {j \in 1 .. BUCKET_SIZE : bucket[j].age # age}
        first_old == CHOOSE j \in old : \A k \in old : j <= k
        min_idx == CHOOSE j \in 1 .. BUCKET_SIZE :
                      \A k \in 1 .. BUCKET_SIZE :
                          \/ bucket[j].depth < bucket[k].depth
                          \/ bucket[j].depth = bucket[k].depth /\ j <= k
    IN  IF same # {}
        THEN (IF depth >= bucket[first_same].depth
              THEN [tt EXCEPT !.table[idx][first_same] = entry]
              ELSE tt)
        ELSE IF old # {}
        THEN [tt EXCEPT !.table[idx][first_old] = entry, !.used = @ + 1]
        ELSE [tt EXCEPT !.table[idx][min_idx] = entry]
---------------------------------------------------------------------------
(* tests/recursion.rs: fixed-depth alpha-beta with an optional table *)

MATE_SCORE == 30000

\* is_king_attcked(color, board): the king of color stands attacked
is_king_attcked(color, board) ==
    \E k \in board.bitboards[color][King] : is_square_attacked(k, toggle(color), board)

\* the element of a singleton: binds a value that is computed once
the(S) == CHOOSE x \in S : TRUE

\* alpha_beta(board, alpha, beta, depth, ply, age, tt): tt is <<>> for None and
\* <<table>> for Some(&table).  The value is [score, board, tt, panic, cutoffs]:
\* the board and the table as the call leaves them, and (ghost) how many nodes
\* returned the score of a table entry.
RECURSIVE alpha_beta(_, _, _, _, _, _, _)

\* one pass of the body of `for mov in gen_color_moves(board)`; st holds the
\* locals alpha, best_score, best_move, found_legal_move, the board and the
\* table, and whether the loop was left by `break`
alpha_beta_move(st, mov, beta, depth, ply, age) ==
    the({ IF made.panic \/ is_legal_move_panics(mov, made.b)
          THEN [st EXCEPT !.panic = TRUE]
          ELSE IF ~is_legal_move(mov, made.b)
          THEN the({ IF undone.panic THEN [st EXCEPT !.panic = TRUE]
                     ELSE [st EXCEPT !.board = undone.b]
                     : undone \in {undo_move(made.b, made.undo)} })
          ELSE the({ IF child.panic THEN [st EXCEPT !.panic = TRUE]
                     ELSE the({ LET score == -child.score
                                    better == score > st.best_score
                                    alpha == IF score > st.alpha THEN score ELSE st.alpha
                                IN  IF undone.panic THEN [st EXCEPT !.panic = TRUE]
                                    ELSE [st EXCEPT !.found_legal_move = TRUE,
                                                    !.best_score = IF better THEN score ELSE @,
                                                    !.best_move = IF better THEN mov ELSE @,
                                                    !.alpha = alpha,
                                                    !.tt = child.tt,
                                                    !.cutoffs = @ + child.cutoffs,
                                                    !.board = undone.b,
                                                    !.broke = alpha >= beta]
                                : undone \in {undo_move(child.board, made.undo)} })
                     : child \in {alpha_beta(made.b, -beta, -st.alpha, depth - 1,
                                             ply + 1, age, st.tt)} })
          : made \in {make_move(st.board, mov)} })

\* the loop from move i on
RECURSIVE alpha_beta_loop(_, _, _, _, _, _, _)
alpha_beta_loop(st, moves, i, beta, depth, ply, age) ==
    IF i > Len(moves) \/ st.panic \/ st.broke THEN st
    ELSE the({ alpha_beta_loop(next, moves, i + 1, beta, depth, ply, age)
               : next \in {alpha_beta_move(st, moves[i], beta, depth, ply, age)} })

\* the table probe at the head of alpha_beta: <<score>> when it ends the call
alpha_beta_probe(board, alpha, beta, depth, ply, tt) ==
    LET entry == IF tt = <<>> THEN <<>> ELSE TT_probe(tt[1], board.zobrist, depth)
    IN  IF entry # <<>> /\ entry[1].depth = depth
        THEN TTEntryData_probe(entry[1], alpha, beta, ply)
        ELSE <<>>

\* what follows the loop: the store and the score, or mate / stalemate
alpha_beta_end(st, beta, depth, ply, age) ==
    IF st.panic
    THEN [score |-> 0, board |-> st.board, tt |-> st.tt, panic |-> TRUE,
          cutoffs |-> st.cutoffs]
    ELSE IF st.found_legal_move
    THEN [score |-> st.best_score, board |-> st.board,
          tt |-> IF st.tt = <<>> THEN <<>>
                 ELSE <<TT_store(st.tt[1], st.board.zobrist, depth, st.best_score,
                                 st.best_move,
                                 Bound_from_score(st.best_score, st.alpha, beta),
                                 age, ply)>>,
          panic |-> FALSE, cutoffs |-> st.cutoffs]
    ELSE [score |-> IF is_king_attcked(st.board.side_to_move, st.board)
                    THEN -(MATE_SCORE - ply) ELSE 0,
          board |-> st.board, tt |-> st.tt, panic |-> FALSE,
          cutoffs |-> st.cutoffs]

alpha_beta(board, alpha, beta, depth, ply, age, tt) ==
    IF depth = 0
    THEN [score |-> IF board.side_to_move = White
                    THEN evaluate(board) ELSE -evaluate(board),
          board |-> board, tt |-> tt, panic |-> FALSE, cutoffs |-> 0]
    ELSE the({ IF cut # <<>>
               THEN [score |-> cut[1], board |-> board, tt |-> tt, panic |-> FALSE,
                     cutoffs |-> 1]
               ELSE the({ alpha_beta_end(st, beta, depth, ply, age)
                          : st \in {the({ alpha_beta_loop(
                                [alpha |-> alpha, best_score |-> -INF, best_move |-> 0,
                                 found_legal_move |-> FALSE, board |-> board, tt |-> tt,
                                 panic |-> FALSE, broke |-> FALSE, cutoffs |-> 0],
                                moves, 1, beta, depth, ply, age)
                                : moves \in {gen_color_moves(board)} })} })
               : cut \in {alpha_beta_probe(board, alpha, beta, depth, ply, tt)} })

---------------------------------------------------------------------------
(* The rules of chess the legality filter is meant to implement *)

is_castle(mov) == move_type_of(mov) \in {KingSideCastle, QueenSideCastle}

\* the king of color is not attacked by the other side
king_safe(board, color) ==
    \A k \in board.bitboards[color][King] : ~is_square_attacked(k, toggle(color), board)

\* squares strictly between king and rook, for the side castling
castle_between(move_type, color) ==
    IF color = White
    THEN (IF move_type = KingSideCastle THEN {5, 6} ELSE {1, 2, 3})
    ELSE (IF move_type = KingSideCastle THEN {61, 62} ELSE {57, 58, 59})

\* origin, transit and destination of the king, for the side castling
castle_through(move_type, color) ==
    IF color = White
    THEN (IF move_type = KingSideCastle THEN {4, 5, 6} ELSE {4, 3, 2})
    ELSE (IF move_type = KingSideCastle THEN {60, 61, 62} ELSE {60, 59, 58})

castle_path_clear(before, mov) ==
    castle_between(move_type_of(mov), before.side_to_move) \cap occupancy_all(before) = {}

castle_path_safe(before, mov) ==
    \A s \in castle_through(move_type_of(mov), before.side_to_move) :
        ~is_square_attacked(s, toggle(before.side_to_move), before)

\* mov, played on before and giving after, is legal by the rules
rules_legal(before, mov, after) ==
    IF is_castle(mov)
    THEN castle_path_clear(before, mov) /\ castle_path_safe(before, mov)
    ELSE king_safe(after, before.side_to_move)

---------------------------------------------------------------------------
(* perft/perft_logic.rs: perft as a walk with an explicit call stack *)

\* deepest perft the suite asks for
MaxDepth == 3

\* positions and published node counts by depth (chessprogramming.org perft results)
PerftSuite ==
    << [fen |-> STARTPOS_FEN, nodes |-> <<20, 400, 8902>>],
       [fen |-> ENDGAME_FEN, nodes |-> <<14, 191, 2812, 43238>>],
       [fen |-> KIWIPETE_FEN, nodes |-> <<48, 2039>>],
       [fen |-> PROMOTION_FEN, nodes |-> <<6, 264>>] >>


---------------------------------------------------------------------------
(* State *)

VARIABLES
    board,      \* perft: the Board perft mutates in place
    frames,     \* perft: activations, outermost first
    pc,         \* perft: "idle", "call", "loop", "made", "undo", "done", "panic"
    arg,        \* perft: depth (and ghost legality) of the call about to start
    result,     \* perft: value returned by the outermost call
    tt,         \* perft: PerftTT
    suite,      \* perft ghost: [entry, depth] of the run
    toggle_ok,  \* perft ghost: every toggle_piece so far met its debug assertion
    ab_tt,      \* test_transposition: the shared TT
    ab_age,     \* test_transposition: age
    ab_line,    \* test_transposition: the line under test, its board and depth
    ab_last,    \* test_transposition: <<>> or the scores of the last loop body
    search_mode,   \* search: the AtomicSearchMode shared by both threads
    time_control,  \* search: the TimeControl of the go command
    time,          \* search: Option<TimeManagement>, by its cached clock reading
    searcher,      \* search thread: position in start_search and its locals
    uci_pc,        \* protocol thread: "idle", or "ponderhit" between load and store
    ghost,         \* search ghost: iterations completed, cut short, stopped, last poll
    unit           \* a component exercised on its own: [kind |-> "idle"], or its state

abVars == <<ab_tt, ab_age, ab_line, ab_last>>

perftVars == <<board, frames, pc, arg, result, tt, suite, toggle_ok>>

searchVars == <<search_mode, time_control, time, searcher, uci_pc, ghost>>

vars == <<perftVars, abVars, searchVars, unit>>
top == frames[Len(frames)]

set_top(frame) == [frames EXCEPT ![Len(frames)] = frame]

PerftInit ==
    /\ \E e \in 1 .. Len(PerftSuite) :
         \E d \in 1 .. Len(PerftSuite[e].nodes) :
            /\ d <= MaxDepth
            /\ suite = [entry |-> e, depth |-> d]
            /\ board = BoardNew(PerftSuite[e].fen).board
            /\ arg = [depth |-> d, legal |-> TRUE]
    /\ frames = <<>>
    /\ pc = "call"
    /\ result = <<>>
    /\ tt = PerftTT_new
    /\ toggle_ok = TRUE

\* `return value` of a perft activation: to the caller's `nodes +=`, or out
perft_return(stack, value) ==
    IF stack = <<>>
    THEN /\ frames' = stack
         /\ pc' = "done"
         /\ result' = <<value>>
    ELSE /\ frames' = [stack EXCEPT ![Len(stack)].nodes = @ + value]
         /\ pc' = "undo"
         /\ result' = result

\* entry of perft: depth 0, the table probe, or the move loop
PerftCall ==
    /\ pc = "call"
    /\ LET probed == PerftTT_probe(tt, board.zobrist, arg.depth)
       IN  IF arg.depth = 0 THEN perft_return(frames, 1)
           ELSE IF probed # <<>> THEN perft_return(frames, probed[1])
           ELSE /\ frames' = Append(frames,
                        [depth |-> arg.depth, zobrist |-> board.zobrist,
                         moves |-> gen_color_moves(board), idx |-> 1, nodes |-> 0,
                         undo |-> <<>>, before |-> <<>>, clean |-> toggle_ok,
                         legal |-> arg.legal, undone |-> FALSE])
                /\ pc' = "loop"
                /\ result' = result
    /\ UNCHANGED <<board, arg, tt, suite, toggle_ok>>
    /\ UNCHANGED <<abVars, searchVars, unit>>

\* let undo = board.make_move(mov)
PerftMake ==
    /\ pc = "loop"
    /\ top.idx <= Len(top.moves)
    /\ LET made == make_move(board, top.moves[top.idx])
       IN  /\ board' = made.b
           /\ toggle_ok' = (toggle_ok /\ made.ok)
           /\ frames' = set_top([top EXCEPT !.undo = <<made.undo>>,
                                            !.before = <<board>>,
                                            !.clean = toggle_ok,
                                            !.undone = FALSE])
           /\ pc' = IF made.panic THEN "panic" ELSE "made"
    /\ UNCHANGED <<arg, result, tt, suite>>
    /\ UNCHANGED <<abVars, searchVars, unit>>

\* if is_legal_move(mov, board) { ... perft(board, depth - 1, tt) }
PerftCheck ==
    /\ pc = "made"
    /\ LET mov == top.moves[top.idx]
       IN  IF is_legal_move_panics(mov, board)
           THEN pc' = "panic" /\ arg' = arg
           ELSE IF is_legal_move(mov, board)
           THEN /\ pc' = "call"
                /\ arg' = [depth |-> top.depth - 1,
                           legal |-> top.legal /\ top.clean
                                       /\ rules_legal(top.before[1], mov, board)]
           ELSE pc' = "undo" /\ arg' = arg
    /\ UNCHANGED <<board, frames, result, tt, suite, toggle_ok>>
    /\ UNCHANGED <<abVars, searchVars, unit>>

\* board.undo_move(&undo), and on to the next move
PerftUndo ==
    /\ pc = "undo"
    /\ LET undone == undo_move(board, top.undo[1])
       IN  /\ board' = undone.b
           /\ toggle_ok' = (toggle_ok /\ undone.ok)
           /\ frames' = set_top([top EXCEPT !.idx = @ + 1, !.undone = TRUE])
           /\ pc' = IF undone.panic THEN "panic" ELSE "loop"
    /\ UNCHANGED <<arg, result, tt, suite>>
    /\ UNCHANGED <<abVars, searchVars, unit>>

\* tt.store(zobrist, depth, nodes); nodes
PerftReturn ==
    /\ pc = "loop"
    /\ top.idx > Len(top.moves)
    /\ tt' = PerftTT_store(tt, top.zobrist, top.depth, top.nodes)
    /\ perft_return(SubSeq(frames, 1, Len(frames) - 1), top.nodes)
    /\ UNCHANGED <<board, arg, suite, toggle_ok>>
    /\ UNCHANGED <<abVars, searchVars, unit>>
---------------------------------------------------------------------------
(* tests/recursion.rs: test_transposition *)

\* depths 0 .. MaxSearchDepth - 1 are searched (SEARCH_DEPTH in the test)
MaxSearchDepth == 3

\* lines of the suite a run goes through
MaxLines == 2

\* log2 of the largest table tried
MaxTTBits == 1

\* positions the lines of the suite hold
TestPositions ==
    <<PAWNS_FEN, PAWNS_REPLY_FEN, EXCHANGE_FEN, EXCHANGE_REPLY_FEN, BISHOP_FEN>>

\* let mut board = Board::new(&fen)?, before `for depth in 0..SEARCH_DEPTH`
new_line(p, count) ==
    [position |-> p, board |-> BoardNew(TestPositions[p]).board, depth |-> 0,
     count |-> count]

\* the test has stopped: a search panicked, or panic!("TT mismatch")
test_failed ==
    /\ ab_last # <<>>
    /\ \/ ab_last[1].panic_with_tt
       \/ ab_last[1].panic_without_tt
       \/ ab_last[1].score_with_tt # ab_last[1].score_without_tt

ABIdle ==
    /\ ab_tt = TT_new(0)
    /\ ab_age = 0
    /\ ab_line = [position |-> 0, board |-> EmptyBoard, depth |-> 0, count |-> 0]
    /\ ab_last = <<>>

ABInit ==
    /\ \E bits \in 0 .. MaxTTBits : ab_tt = TT_new(bits)
    /\ ab_age = 1
    /\ \E p \in 1 .. Len(TestPositions) : ab_line = new_line(p, 1)
    /\ ab_last = <<>>

\* one body of the depth loop: the search with the table, then without, both
\* on the board of the line
TestTransposition ==
    /\ ~test_failed
    /\ ab_line.depth < MaxSearchDepth
    /\ LET depth == ab_line.depth
           with_tt == alpha_beta(ab_line.board, -INF, INF, depth, 0, ab_age, <<ab_tt>>)
           without_tt == alpha_beta(with_tt.board, -INF, INF, depth, 0, ab_age, <<>>)
           reference == alpha_beta(ab_line.board, -INF, INF, depth, 0, ab_age, <<>>)
       IN  /\ ab_tt' = with_tt.tt[1]
           /\ ab_line' = [ab_line EXCEPT !.board = without_tt.board, !.depth = depth + 1]
           /\ ab_last' = <<[position |-> ab_line.position, depth |-> depth,
                            score_with_tt |-> with_tt.score,
                            score_without_tt |-> without_tt.score,
                            panic_with_tt |-> with_tt.panic,
                            panic_without_tt |-> without_tt.panic,
                            clean |-> with_tt.board = ab_line.board,
                            cutoffs |-> with_tt.cutoffs,
                            score_reference |-> reference.score,
                            panic_reference |-> reference.panic]>>
    /\ UNCHANGED ab_age
    /\ UNCHANGED <<perftVars, searchVars, unit>>

\* age += 1, and the next line of the suite
NextLine ==
    /\ ~test_failed
    /\ ab_line.depth = MaxSearchDepth
    /\ ab_line.count < MaxLines
    /\ \E p \in 1 .. Len(TestPositions) : ab_line' = new_line(p, ab_line.count + 1)
    /\ ab_age' = ab_age + 1
    /\ UNCHANGED <<ab_tt, ab_last>>
    /\ UNCHANGED <<perftVars, searchVars, unit>>

---------------------------------------------------------------------------
(* engine/search.rs and engine/uci.rs: the search thread, its mode flag and
   the protocol thread.  The tree below a root move is abstracted to the
   polls of the mode flag it makes and the score it returns. *)

Normal == 0
Ponder == 1
PonderHit == 2
Stop == 3

\* root moves of the searched position (move_list, taken as legal)
NumRootMoves == 2

\* scores a root move search can return
ScoreSet == {-10, 10}

\* iterations before the depth cap (MAX_PLY in the code) ends the search
MaxIterations == 3

\* cached_elapsed against the limits: below soft, soft reached, hard reached
BelowSoft == 0
SoftReached == 1
HardReached == 2

\* a start_search / time_to_stop that installs no time manager at all
new_time_none(control) == <<>>

\* the match on the TimeControl in start_search and time_to_stop:
\* TimeManagement::from_clock / from_millis with cached_elapsed zero, or None
new_time(control) ==
    IF control.kind = "ClockTime" THEN <<[from |-> "from_clock", elapsed |-> BelowSoft]>>
    ELSE IF control.kind = "MoveTime" THEN <<[from |-> "from_millis", elapsed |-> BelowSoft]>>
    ELSE <<>>

\* a time_to_stop that asks the time manager in Ponder mode too
polls_clock_when_pondering(mode) == mode # Stop

\* time_to_stop: is_timeout is called unless the mode read is Stop or Ponder
polls_clock(mode) == mode # Stop /\ mode # Ponder

SearchIdle ==
    /\ search_mode = Normal
    /\ time_control = [kind |-> "Infinite", depth |-> 0]
    /\ time = <<>>
    /\ searcher = [pc |-> "idle"]
    /\ uci_pc = "idle"
    /\ ghost = [cut |-> FALSE, completed |-> <<>>, first |-> <<>>, stopped |-> FALSE,
                last_poll |-> <<>>]

\* after `go` (or `go ponder`) has spawned the worker with its TimeControl
SearchInit ==
    /\ search_mode \in {Normal, Ponder}
    /\ time_control \in
         {[kind |-> "Infinite", depth |-> 0], [kind |-> "MoveTime", depth |-> 0],
          [kind |-> "ClockTime", depth |-> 0]}
         \cup {[kind |-> "Depth", depth |-> d] : d \in 1 .. MaxIterations}
    /\ time = <<>>
    /\ searcher = [pc |-> "start", current_depth |-> 0, move_index |-> 0,
                   best_move |-> 0, step_best_move |-> 0, best_score |-> -INF,
                   poll |-> ""]
    /\ uci_pc = "idle"
    /\ ghost = [cut |-> FALSE, completed |-> <<>>, first |-> <<>>, stopped |-> FALSE,
                last_poll |-> <<>>]

\* start_search up to the first iteration of iterative_deepening
StartSearch ==
    /\ searcher.pc = "start"
    /\ time' = new_time(time_control)
    /\ searcher' = [searcher EXCEPT !.pc = "loop", !.current_depth = 1,
                                    !.move_index = 1, !.best_move = 1,
                                    !.step_best_move = 1, !.best_score = -INF]
    /\ UNCHANGED <<search_mode, time_control, uci_pc, ghost>>
    /\ UNCHANGED <<perftVars, abVars, unit>>

\* the root loop after a root move's search returned score
root_score(s, score) ==
    [s EXCEPT !.step_best_move = IF score > s.best_score THEN s.move_index ELSE @,
              !.best_score = IF score > s.best_score THEN score ELSE @,
              !.move_index = @ + 1,
              !.pc = "loop"]

\* ghost: the iteration under way ends with every root move searched or not
note_iteration(g, s) ==
    [g EXCEPT !.completed = IF g.cut THEN @ ELSE <<s.step_best_move>>,
              !.first = IF s.current_depth = 1 THEN <<s.step_best_move>> ELSE @]

\* what follows a call of time_to_stop that returned stop, by call site
after_poll(site, stop, poll) ==
    IF site = "root"
    THEN \* if current_depth > 1 && self.time_to_stop(false) { break; }
         /\ searcher' = [searcher EXCEPT !.pc = IF stop THEN "broke" ELSE "search"]
         /\ ghost' = [ghost EXCEPT !.cut = @ \/ stop, !.last_poll = <<poll>>]
    ELSE IF site = "tree"
    THEN \* inside search / quiescence: the subtree is abandoned with a score
         IF stop
         THEN /\ \E score \in ScoreSet : searcher' = root_score(searcher, score)
              /\ ghost' = [ghost EXCEPT !.cut = TRUE, !.last_poll = <<poll>>]
         ELSE /\ searcher' = [searcher EXCEPT !.pc = "search"]
              /\ ghost' = [ghost EXCEPT !.last_poll = <<poll>>]
    ELSE \* if self.time_to_stop(true) { ... break; } after the root loop
         IF stop
         THEN /\ searcher' = [searcher EXCEPT
                    !.best_move = IF searcher.current_depth <= 1
                                  THEN searcher.step_best_move ELSE @,
                    !.pc = "guard"]
              /\ ghost' = [note_iteration(ghost, searcher) EXCEPT
                               !.stopped = TRUE, !.last_poll = <<poll>>]
         ELSE /\ searcher' =
                    IF searcher.current_depth >=
                           (IF time_control.kind = "Depth"
                            THEN time_control.depth ELSE MaxIterations)
                    THEN [searcher EXCEPT !.best_move = searcher.step_best_move,
                                          !.pc = "guard"]
                    ELSE [searcher EXCEPT !.best_move = searcher.step_best_move,
                                          !.current_depth = @ + 1,
                                          !.move_index = 1,
                                          !.best_score = -INF,
                                          !.pc = "loop"]
              /\ ghost' = [note_iteration(ghost, searcher) EXCEPT
                               !.cut = FALSE, !.last_poll = <<poll>>]

\* time_to_stop(is_depth_complete) from its load of the mode flag on; seeing
\* PonderHit it goes on to install the clock and store Normal
time_to_stop(site, is_depth_complete) ==
    IF search_mode = PonderHit
    THEN /\ searcher' = [searcher EXCEPT !.pc = "ponderhit", !.poll = site]
         /\ UNCHANGED <<time, ghost>>
    ELSE IF ~polls_clock(search_mode) \/ time = <<>>
    THEN /\ after_poll(site, search_mode = Stop,
                       [mode |-> search_mode, complete |-> is_depth_complete,
                        clock |-> <<>>, stop |-> search_mode = Stop])
         /\ UNCHANGED time
    ELSE \* is_timeout: the cached clock reading is refreshed now and then
         \E elapsed \in time[1].elapsed .. HardReached :
            LET stop == \/ search_mode = Stop
                        \/ elapsed >= HardReached
                        \/ elapsed >= SoftReached /\ is_depth_complete
            IN  /\ time' = <<[time[1] EXCEPT !.elapsed = elapsed]>>
                /\ after_poll(site, stop,
                              [mode |-> search_mode, complete |-> is_depth_complete,
                               clock |-> <<elapsed>>, stop |-> stop])

\* head of the root loop at depth 1: no poll
StartMove ==
    /\ searcher.pc = "loop"
    /\ searcher.move_index <= NumRootMoves
    /\ searcher.current_depth <= 1
    /\ searcher' = [searcher EXCEPT !.pc = "search"]
    /\ UNCHANGED <<search_mode, time_control, time, uci_pc, ghost>>
    /\ UNCHANGED <<perftVars, abVars, unit>>

\* head of the root loop at depth > 1
RootPoll ==
    /\ searcher.pc = "loop"
    /\ searcher.move_index <= NumRootMoves
    /\ searcher.current_depth > 1
    /\ time_to_stop("root", FALSE)
    /\ UNCHANGED <<search_mode, time_control, uci_pc>>
    /\ UNCHANGED <<perftVars, abVars, unit>>

\* a poll from within the search of a root move
TreePoll ==
    /\ searcher.pc = "search"
    /\ time_to_stop("tree", FALSE)
    /\ UNCHANGED <<search_mode, time_control, uci_pc>>
    /\ UNCHANGED <<perftVars, abVars, unit>>

\* the search of a root move returns without having been stopped
FinishMove ==
    /\ searcher.pc = "search"
    /\ \E score \in ScoreSet : searcher' = root_score(searcher, score)
    /\ UNCHANGED <<search_mode, time_control, time, uci_pc, ghost>>
    /\ UNCHANGED <<perftVars, abVars, unit>>

\* after the root loop
EndPoll ==
    /\ \/ searcher.pc = "loop" /\ searcher.move_index > NumRootMoves
       \/ searcher.pc = "broke"
    /\ time_to_stop("end", TRUE)
    /\ UNCHANGED <<search_mode, time_control, uci_pc>>
    /\ UNCHANGED <<perftVars, abVars, unit>>

\* time_to_stop, PonderHit seen: self.time = ...; store(Normal); return false
PonderHitStore ==
    /\ searcher.pc = "ponderhit"
    /\ time' = new_time(time_control)
    /\ search_mode' = Normal
    /\ after_poll(searcher.poll, FALSE,
                  [mode |-> PonderHit, complete |-> searcher.poll = "end",
                   clock |-> <<>>, stop |-> FALSE])
    /\ UNCHANGED <<time_control, uci_pc>>
    /\ UNCHANGED <<perftVars, abVars, unit>>

\* start_search after iterative_deepening: store(Normal), return the move
Guard ==
    /\ searcher.pc = "guard"
    /\ search_mode' = Normal
    /\ searcher' = [searcher EXCEPT !.pc = "returned"]
    /\ UNCHANGED <<time_control, time, uci_pc, ghost>>
    /\ UNCHANGED <<perftVars, abVars, unit>>

\* protocol thread: `stop`
UciStop ==
    /\ uci_pc = "idle"
    /\ search_mode' = Stop
    /\ UNCHANGED <<time_control, time, searcher, uci_pc, ghost>>
    /\ UNCHANGED <<perftVars, abVars, unit>>

\* protocol thread: `ponderhit`, the load
UciPonderHitLoad ==
    /\ uci_pc = "idle"
    /\ search_mode = Ponder
    /\ uci_pc' = "ponderhit"
    /\ UNCHANGED <<search_mode, time_control, time, searcher, ghost>>
    /\ UNCHANGED <<perftVars, abVars, unit>>

\* protocol thread: `ponderhit`, the store
UciPonderHitStore ==
    /\ uci_pc = "ponderhit"
    /\ search_mode' = PonderHit
    /\ uci_pc' = "idle"
    /\ UNCHANGED <<time_control, time, searcher, ghost>>
    /\ UNCHANGED <<perftVars, abVars, unit>>

---------------------------------------------------------------------------
(* engine/transposition.rs: a bucket of the table shared between threads.
   TTEntry::store writes the key word and then the data word; TT::probe
   reads the key word and then the data word.  Each access of a word is a
   step of its own. *)

\* threads that store into the table
NumWriters == 2

\* calls of TT::store and of TT::probe in a run
MaxRaceStores == 2
MaxRaceProbes == 1

\* zobrist keys of the positions stored and probed (none is the zero key)
RaceKeys == {{1}, {2}, {3}}

\* depths and scores of the stored nodes
RaceDepths == {0, 1}
RaceScores == {10, 20}

\* TTEntry::load: the fields of TTEntryData unpacked from the data word
TTEntry_load(e) ==
    [depth |-> e.depth, score |-> e.score, bound |-> e.bound, best_move |-> e.best_move]

RaceInit ==
    unit = [kind |-> "race",
            tt |-> TT_new(0),
            writer |-> [w \in 1 .. NumWriters |-> [pc |-> "idle"]],
            reader |-> [pc |-> "idle"],
            stored |-> {},
            stores |-> 0,
            probes |-> 0,
            result |-> <<>>]

\* TT::store up to the choice of the entry: the bucket is read and the slot
\* chosen as in the sequential code; the threads belong to one search, of age 1
RaceStoreBegin(w) ==
    /\ unit.kind = "race"
    /\ unit.writer[w].pc = "idle"
    /\ unit.stores < MaxRaceStores
    /\ \E key \in RaceKeys, depth \in RaceDepths, score \in RaceScores :
          LET after == TT_store(unit.tt, key, depth, score, 0, Exact, 1, 0)
              slots == {j \in 1 .. BUCKET_SIZE : after.table[0][j] # unit.tt.table[0][j]}
          IN  IF slots = {}
              THEN unit' = [unit EXCEPT !.stores = @ + 1]
              ELSE unit' = [unit EXCEPT
                      !.stores = @ + 1,
                      !.stored = @ \cup {[key |-> key,
                                          data |-> TTEntry_load(after.table[0][the(slots)])]},
                      !.writer[w] = [pc |-> "key", slot |-> the(slots),
                                     entry |-> after.table[0][the(slots)]]]
    /\ UNCHANGED <<perftVars, abVars, searchVars>>

\* TTEntry::store: self.key.store(key, Release)
RaceWriteKey(w) ==
    /\ unit.kind = "race"
    /\ unit.writer[w].pc = "key"
    /\ unit' = [unit EXCEPT
            !.tt.table[0][unit.writer[w].slot].key = unit.writer[w].entry.key,
            !.writer[w].pc = "data"]
    /\ UNCHANGED <<perftVars, abVars, searchVars>>

\* TTEntry::store: self.data.store(packed, Release)
RaceWriteData(w) ==
    /\ unit.kind = "race"
    /\ unit.writer[w].pc = "data"
    /\ unit' = [unit EXCEPT
            !.tt.table[0][unit.writer[w].slot] =
                [unit.writer[w].entry EXCEPT !.key = unit.tt.table[0][unit.writer[w].slot].key],
            !.writer[w] = [pc |-> "idle"]]
    /\ UNCHANGED <<perftVars, abVars, searchVars>>

\* TT::probe is called
RaceProbeBegin ==
    /\ unit.kind = "race"
    /\ unit.reader.pc = "idle"
    /\ unit.probes < MaxRaceProbes
    /\ \E key \in RaceKeys, depth \in RaceDepths :
          unit' = [unit EXCEPT !.probes = @ + 1, !.result = <<>>,
                               !.reader = [pc |-> "key", key |-> key, depth |-> depth,
                                           j |-> 1]]
    /\ UNCHANGED <<perftVars, abVars, searchVars>>

\* the reader moves on to the next entry of the bucket, or returns None
next_entry(reader) ==
    IF reader.j < BUCKET_SIZE
    THEN [reader EXCEPT !.pc = "key", !.j = @ + 1]
    ELSE [pc |-> "idle"]

\* TT::probe: if entry.get_key() == key
RaceReadKey ==
    /\ unit.kind = "race"
    /\ unit.reader.pc = "key"
    /\ unit' = [unit EXCEPT !.reader =
            IF unit.tt.table[0][unit.reader.j].key = unit.reader.key
            THEN [unit.reader EXCEPT !.pc = "data"]
            ELSE next_entry(unit.reader)]
    /\ UNCHANGED <<perftVars, abVars, searchVars>>

\* TT::probe: let data = entry.load(); if data.depth >= depth { return Some(data) }
RaceReadData ==
    /\ unit.kind = "race"
    /\ unit.reader.pc = "data"
    /\ LET data == TTEntry_load(unit.tt.table[0][unit.reader.j])
       IN  IF data.depth >= unit.reader.depth
           THEN unit' = [unit EXCEPT
                    !.result = <<[key |-> unit.reader.key, data |-> data]>>,
                    !.reader = [pc |-> "idle"]]
           ELSE unit' = [unit EXCEPT !.reader = next_entry(unit.reader)]
    /\ UNCHANGED <<perftVars, abVars, searchVars>>

---------------------------------------------------------------------------
(* engine/transposition.rs: TT::store called by one thread on one bucket *)

\* calls of TT::store in a run
MaxStores == 3

\* search ages of the calls (recursion.rs starts at 1)
MaxStoreAge == 2

\* depths of the stored nodes
MaxStoreDepth == 2

StoreInit ==
    unit = [kind |-> "store", tt |-> TT_new(0), before |-> TT_new(0), last |-> <<>>,
            stores |-> 0]

\* one call of TT::store
Store ==
    /\ unit.kind = "store"
    /\ unit.stores < MaxStores
    /\ \E key \in RaceKeys, depth \in 0 .. MaxStoreDepth, age \in 1 .. MaxStoreAge,
          score \in {10} :
          unit' = [unit EXCEPT
              !.tt = TT_store(unit.tt, key, depth, score, 0, Exact, age, 0),
              !.before = unit.tt,
              !.last = <<[key |-> key, depth |-> depth, age |-> age, score |-> score,
                          bound |-> Exact, best_move |-> 0]>>,
              !.stores = @ + 1]
    /\ UNCHANGED <<perftVars, abVars, searchVars>>

---------------------------------------------------------------------------
(* engine/transposition.rs: a score stored at one ply and probed at another *)

\* scores are taken within this distance of 0, of the mate threshold and of
\* the mate score, on both sides
ScoreMargin == 6

abs(x) == IF x < 0 THEN -x ELSE x

\* scores of the stored nodes
MateScores ==
    {s \in -CHECKMATE_SCORE .. CHECKMATE_SCORE :
        \/ abs(s) <= ScoreMargin
        \/ abs(abs(s) - CHECKMATE_THRESHOLD) <= ScoreMargin
        \/ abs(s) >= CHECKMATE_SCORE - ScoreMargin}

\* a node at some ply with its score, not yet stored
MateInit ==
    \E score \in MateScores, ply \in 0 .. MAX_PLY - 1 :
        unit = [kind |-> "mate", score |-> score, ply |-> ply, tt |-> TT_new(0),
                probed |-> <<>>]

\* Searcher::search stores the node: tt.store(zobrist, depth, best_score, .., ply)
MateStore ==
    /\ unit.kind = "mate"
    /\ unit.tt.used = 0
    /\ unit' = [unit EXCEPT
            !.tt = TT_store(unit.tt, {1}, 1, unit.score, 0, Exact, 1, unit.ply)]
    /\ UNCHANGED <<perftVars, abVars, searchVars>>

\* Searcher::search reaches the position at some ply: tt.probe, e.probe(alpha, beta, ply)
MateProbe ==
    /\ unit.kind = "mate"
    /\ unit.tt.used = 1
    /\ unit.probed = <<>>
    /\ \E ply \in 0 .. MAX_PLY - 1 :
          LET entry == TT_probe(unit.tt, {1}, 1)
              entry_score == TTEntryData_probe(entry[1], -INF, INF, ply)
          IN  unit' = [unit EXCEPT
                  !.probed = <<[ply |-> ply, stored |-> entry[1].score,
                                score |-> entry_score[1]]>>]
    /\ UNCHANGED <<perftVars, abVars, searchVars>>


---------------------------------------------------------------------------
(* engine/search.rs and engine/uci.rs: the zobrist history and the
   repetition test.  A position is its hash: the moves since the last pawn
   move or capture lead to one of a few positions, the side to move is part
   of the hash, and no position recurs across a pawn move or capture. *)

\* plies in the history after the first position
MaxHistory == 6

\* positions a side can reach by moves that are no pawn move or capture
NumPositions == 2

\* hash of a position: pawn moves and captures so far, position, side to move
zobrist_of(epoch, id, side) == <<epoch, id, side>>

\* the iterator chain of is_three_fold_repetition, from the back of the
\* history: .take(n), .step_by(2), .filter(..), .take(2).count()
is_three_fold_repetition(self) ==
    LET len == Len(self.history)
        rev == [i \in 1 .. len |-> self.history[len + 1 - i]]
        taken == IF self.board.halfmove_clock < len THEN self.board.halfmove_clock ELSE len
        stepped == {i \in 1 .. taken : i % 2 = 1}
        matching == {i \in stepped : rev[i] = self.board.zobrist}
        count == IF Cardinality(matching) > 2 THEN 2 ELSE Cardinality(matching)
    IN  count >= 2

\* Uci::handle_position on a position without moves: the history holds its hash
RepInit ==
    unit = [kind |-> "history",
            board |-> [zobrist |-> zobrist_of(0, 1, White), halfmove_clock |-> 0,
                       side_to_move |-> White, epoch |-> 0],
            history |-> <<zobrist_of(0, 1, White)>>,
            undos |-> <<>>,
            root |-> 0]

\* make_move on the hash and the clock, then history.push: handle_position's
\* loop body and Searcher::push_move
RepPush ==
    /\ unit.kind = "history"
    /\ Len(unit.history) <= MaxHistory
    /\ \E reversible \in BOOLEAN, id \in 1 .. NumPositions :
          LET side == toggle(unit.board.side_to_move)
              epoch == IF reversible THEN unit.board.epoch ELSE unit.board.epoch + 1
              after == [zobrist |-> zobrist_of(epoch, IF reversible THEN id ELSE 1, side),
                        halfmove_clock |-> IF reversible
                                           THEN unit.board.halfmove_clock + 1 ELSE 0,
                        side_to_move |-> side, epoch |-> epoch]
          IN  /\ reversible \/ id = 1
              /\ unit' = [unit EXCEPT
                     !.board = after,
                     !.history = Append(@, after.zobrist),
                     !.undos = IF unit.root = 0 THEN @ ELSE Append(@, unit.board)]
    /\ UNCHANGED <<perftVars, abVars, searchVars>>

\* Uci::handle_go: the searcher takes over the board and the history
RepGo ==
    /\ unit.kind = "history"
    /\ unit.root = 0
    /\ unit' = [unit EXCEPT !.root = Len(unit.history)]
    /\ UNCHANGED <<perftVars, abVars, searchVars>>

\* Searcher::pop_move: undo_move, then history.pop
RepPop ==
    /\ unit.kind = "history"
    /\ unit.undos # <<>>
    /\ unit' = [unit EXCEPT
           !.board = unit.undos[Len(unit.undos)],
           !.history = SubSeq(@, 1, Len(@) - 1),
           !.undos = SubSeq(@, 1, Len(@) - 1)]
    /\ UNCHANGED <<perftVars, abVars, searchVars>>

---------------------------------------------------------------------------
(* chess/board.rs: is_insufficient_material on boards of two kings and a
   few more pieces *)

\* pieces a side has besides its king
MaxExtra == 2

\* the pieces of a side besides the king, in ascending order of piece type
ExtraSets ==
    {e \in UNION {[1 .. n -> {Pawn, Knight, Bishop, Rook, Queen}] : n \in 0 .. MaxExtra} :
        \A i \in 1 .. Len(e) - 1 : e[i] <= e[i + 1]}

\* Board::new on the position with the kings on e1 and e8, White's other
\* pieces from a2 on and Black's from a7 on
material_board(white, black) ==
    toggle_all([b |-> EmptyBoard, ok |-> TRUE, panic |-> FALSE],
               <<<<4, King, White>>, <<60, King, Black>>>>
                   \o [i \in 1 .. Len(white) |-> <<7 + i, white[i], White>>]
                   \o [i \in 1 .. Len(black) |-> <<47 + i, black[i], Black>>]).b

MaterialInit ==
    \E white \in ExtraSets, black \in ExtraSets :
        unit = [kind |-> "material", white |-> white, black |-> black,
                board |-> material_board(white, black), result |-> <<>>]

\* Searcher::is_draw asks the board
MaterialTest ==
    /\ unit.kind = "material"
    /\ unit.result = <<>>
    /\ unit' = [unit EXCEPT !.result = <<is_insufficient_material(unit.board)>>]
    /\ UNCHANGED <<perftVars, abVars, searchVars>>


---------------------------------------------------------------------------
(* engine/search.rs: the call stack of Searcher::quiescence.  Scores, the
   board and the table are left out: a call returns early or not, a move is
   skipped or searched, a returned score cuts the loop or not. *)

\* the first call is made at most this many plies before MAX_PLY
MaxFirstDistance == 3

\* moves in a move list
MaxMoveList == 2

\* a quiescence that checks the ply one call too late
ply_limit_reached_late(ply) == ply > MAX_PLY

\* quiescence: ply >= Searcher::MAX_PLY
ply_limit_reached(ply) == ply >= MAX_PLY

\* the caller of the returning call resumes after its recursive call
return_to_caller(stack) ==
    LET rest == SubSeq(stack, 1, Len(stack) - 1)
    IN  IF rest = <<>> THEN rest
        ELSE [rest EXCEPT ![Len(rest)].pc = "returned"]

\* Searcher::search calls quiescence at depth 0
QuiescenceInit ==
    \E ply \in MAX_PLY - MaxFirstDistance .. MAX_PLY :
        unit = [kind |-> "quiescence",
                stack |-> <<[ply |-> ply, pc |-> "enter", left |-> 0]>>,
                deepest |-> ply,
                calls |-> 1]

\* return before the move loop: mate distance pruning, table hit, draw,
\* time_to_stop or the ply limit, stand-pat cutoff, delta pruning
ReturnEarly ==
    /\ unit.kind = "quiescence"
    /\ unit.stack # <<>>
    /\ unit.stack[Len(unit.stack)].pc = "enter"
    /\ unit' = [unit EXCEPT !.stack = return_to_caller(@)]
    /\ UNCHANGED <<perftVars, abVars, searchVars>>

\* none of the early returns is taken: the move list is generated
GenerateMoves ==
    /\ unit.kind = "quiescence"
    /\ unit.stack # <<>>
    /\ unit.stack[Len(unit.stack)].pc = "enter"
    /\ ~ply_limit_reached(unit.stack[Len(unit.stack)].ply)
    /\ \E n \in 0 .. MaxMoveList :
          unit' = [unit EXCEPT !.stack[Len(unit.stack)] = [@ EXCEPT !.pc = "loop", !.left = n]]
    /\ UNCHANGED <<perftVars, abVars, searchVars>>

\* the next move is not legal, or pruned by SEE: continue
SkipMove ==
    /\ unit.kind = "quiescence"
    /\ unit.stack # <<>>
    /\ unit.stack[Len(unit.stack)].pc = "loop"
    /\ unit.stack[Len(unit.stack)].left > 0
    /\ unit' = [unit EXCEPT !.stack[Len(unit.stack)].left = @ - 1]
    /\ UNCHANGED <<perftVars, abVars, searchVars>>

\* -self.quiescence(-beta, -alpha, ply + 1, gives_check)
Recurse ==
    /\ unit.kind = "quiescence"
    /\ unit.stack # <<>>
    /\ unit.stack[Len(unit.stack)].pc = "loop"
    /\ unit.stack[Len(unit.stack)].left > 0
    /\ LET ply == unit.stack[Len(unit.stack)].ply + 1
       IN  unit' = [unit EXCEPT
               !.stack = Append([@ EXCEPT ![Len(@)].pc = "called", ![Len(@)].left = @ - 1],
                                [ply |-> ply, pc |-> "enter", left |-> 0]),
               !.deepest = IF ply > @ THEN ply ELSE @,
               !.calls = @ + 1]
    /\ UNCHANGED <<perftVars, abVars, searchVars>>

\* after the recursive call: alpha >= beta or time_to_stop returns alpha,
\* otherwise the loop goes on
AfterMove ==
    /\ unit.kind = "quiescence"
    /\ unit.stack # <<>>
    /\ unit.stack[Len(unit.stack)].pc = "returned"
    /\ \/ unit' = [unit EXCEPT !.stack = return_to_caller(@)]
       \/ unit' = [unit EXCEPT !.stack[Len(unit.stack)].pc = "loop"]
    /\ UNCHANGED <<perftVars, abVars, searchVars>>

\* the move list is exhausted: the node is stored (or not) and the score returned
LoopEnd ==
    /\ unit.kind = "quiescence"
    /\ unit.stack # <<>>
    /\ unit.stack[Len(unit.stack)].pc = "loop"
    /\ unit.stack[Len(unit.stack)].left = 0
    /\ unit' = [unit EXCEPT !.stack = return_to_caller(@)]
    /\ UNCHANGED <<perftVars, abVars, searchVars>>
---------------------------------------------------------------------------
(* engine/ordering.rs: move scores and the order of the move loop *)

\* HistoryHeuristics::new: every counter is 0 (the table is kept by its
\* non-zero counters)
HistoryHeuristics_new == <<>>

\* HistoryHeuristics::get
HistoryHeuristics_get(table, from, to, color) ==
    IF <<color, from, to>> \in DOMAIN table THEN table[<<color, from, to>>] ELSE 0

\* Searcher::new: killers: [[None; 2]; MAX_PLY]
NoKillers == [ply \in 0 .. MAX_PLY - 1 |-> <<<<>>, <<>>>>]

\* Searcher::ctx
ctx(self, ply, hash_move) ==
    [board |-> self.board,
     pv_line |-> self.prev_pv,
     killers |-> self.killers,
     history_heuristic |-> self.history_heuristic,
     hash_move |-> hash_move,
     ply |-> ply]

\* MVV_LVA[victim][attacker]
MVV_LVA(victim, attacker) == 10 * PIECE_VALUES[victim + 1] - PIECE_VALUES[attacker + 1]

score_move(mov, search_ctx) ==
    LET promotion == promotion_of(mov)
        killers == search_ctx.killers[search_ctx.ply]
    IN  IF /\ search_ctx.ply < Len(search_ctx.pv_line)
           /\ search_ctx.pv_line[search_ctx.ply + 1] = mov
        THEN INF
        ELSE IF search_ctx.hash_move = <<mov>> THEN INF - 1
        ELSE IF promotion # PieceNone
        THEN (IF promotion \in {Queen, Knight} THEN 10000 ELSE 2000)
                 + PIECE_VALUES[promotion + 1]
        ELSE IF move_type_of(mov) = Capture
        THEN MVV_LVA(search_ctx.board.pieces[get_to(mov)][1],
                     search_ctx.board.pieces[get_from(mov)][1])
        ELSE IF move_type_of(mov) = EnPassantCapture
        THEN 10000 + MVV_LVA(Pawn, Pawn)
        ELSE IF <<mov>> = killers[1] THEN 5000 + 1
        ELSE IF <<mov>> = killers[2] THEN 5000
        ELSE HistoryHeuristics_get(search_ctx.history_heuristic, get_from(mov), get_to(mov),
                                   search_ctx.board.side_to_move)

\* score(..).scored_iter(): the moves in the order the selection yields them
\* (the first of the best remaining is swapped to the front)
RECURSIVE scored_iter(_, _)
scored_iter(scored, index) ==
    IF index > Len(scored) THEN <<>>
    ELSE the({ the({ <<swapped[index][1]>> \o scored_iter(swapped, index + 1)
                     : swapped \in {[scored EXCEPT ![index] = scored[best_index],
                                                   ![best_index] = scored[index]]} })
               : best_index \in
                   {i \in index .. Len(scored) :
                       /\ \A j \in index .. Len(scored) : scored[j][2] <= scored[i][2]
                       /\ \A j \in index .. i - 1 : scored[j][2] < scored[i][2]} })

---------------------------------------------------------------------------
(* score_move on pairs of moves of one position *)

\* r1n4k/1P6/5q2/3pP3/8/2p5/p2Q4/K7 w - d6 0 1
ORDER_FEN ==
    << <<"r", "1", "n", "4", "k", "/", "1", "P", "6", "/", "5", "q", "2", "/", "3", "p",
    "P", "3", "/", "8", "/", "2", "p", "5", "/", "p", "2", "Q", "4", "/", "K", "7">>,
    <<"w">>, <<"-">>, <<"d", "6">>, <<"0">>, <<"1">> >>

\* values of a history counter: 0, and the bonus and malus of a cutoff at
\* depth 2
HistoryValues == {0, 4, -4}

\* a position, two of its moves, and the heuristics of the node: the line of
\* the previous iteration, the table move, the killers of the ply and the
\* history counters of the two moves
OrderInit ==
    \E position \in {BoardNew(ORDER_FEN).board} :
    \E move_list \in {gen_color_moves(position)} :
    \E i \in 1 .. Len(move_list), j \in 1 .. Len(move_list) :
    \E a \in {move_list[i]}, b \in {move_list[j]} :
    \E pv_line \in {<<>>, <<a>>},
       hash_move \in {<<>>, <<a>>},
       killers \in {<<<<>>, <<>>>>, <<<<a>>, <<b>>>>, <<<<b>>, <<>>>>},
       value \in HistoryValues :
        /\ i # j
        /\ unit = [kind |-> "order",
                   a |-> a,
                   b |-> b,
                   search_ctx |->
                       ctx([board |-> position,
                            prev_pv |-> pv_line,
                            killers |-> [NoKillers EXCEPT ![0] = killers],
                            history_heuristic |->
                                [k \in {<<White, get_from(a), get_to(a)>>} |-> value]],
                           0, hash_move),
                   scores |-> <<>>]

\* score(): the scores of the two moves
OrderScore ==
    /\ unit.kind = "order"
    /\ unit.scores = <<>>
    /\ unit' = [unit EXCEPT !.scores = <<score_move(unit.a, unit.search_ctx),
                                         score_move(unit.b, unit.search_ctx)>>]
    /\ UNCHANGED <<perftVars, abVars, searchVars>>


---------------------------------------------------------------------------
(* engine/search.rs and engine/ordering.rs: the first iteration of
   iterative_deepening (current_depth 1) under `go depth 1`, the table and
   the heuristics being fresh.  Each root move is answered by quiescence at
   ply 1; the positions are such that quiescence finds no move to follow. *)

\* positions in which White, to move, mates in one move
MateSuite ==
    <<
    \* 7k/8/6K1/8/8/8/8/R7 w - - 0 1
       << <<"7", "k", "/", "8", "/", "6", "K", "1", "/", "8", "/", "8", "/", "8", "/", "8",
       "/", "R", "7">>, <<"w">>, <<"-">>, <<"-">>, <<"0">>, <<"1">> >>,
    \* 7k/8/6K1/8/8/8/8/1R6 w - - 0 1
       << <<"7", "k", "/", "8", "/", "6", "K", "1", "/", "8", "/", "8", "/", "8", "/", "8",
       "/", "1", "R", "6">>, <<"w">>, <<"-">>, <<"-">>, <<"0">>, <<"1">> >>,
    \* k7/8/1K6/8/8/8/8/7R w - - 0 1
       << <<"k", "7", "/", "8", "/", "1", "K", "6", "/", "8", "/", "8", "/", "8", "/", "8",
       "/", "7", "R">>, <<"w">>, <<"-">>, <<"-">>, <<"0">>, <<"1">> >>,
    \* 7k/8/6K1/8/8/8/8/1Q6 w - - 0 1
       << <<"7", "k", "/", "8", "/", "6", "K", "1", "/", "8", "/", "8", "/", "8", "/", "8",
       "/", "1", "Q", "6">>, <<"w">>, <<"-">>, <<"-">>, <<"0">>, <<"1">> >>,
    \* k7/8/1K6/8/8/8/8/6R1 w - - 0 1
       << <<"k", "7", "/", "8", "/", "1", "K", "6", "/", "8", "/", "8", "/", "8", "/", "8",
       "/", "6", "R", "1">>, <<"w">>, <<"-">>, <<"-">>, <<"0">>, <<"1">> >>
    >>

\* Searcher::mate_distance_pruning: Some(score) or None
mate_distance_pruning(ply, alpha, beta) ==
    IF alpha >= CHECKMATE_SCORE - ply THEN <<alpha>>
    ELSE IF beta <= -CHECKMATE_SCORE + ply THEN <<beta>>
    ELSE <<>>

\* Searcher::get_draw_score: (-eval / 10).clamp(-100, 100)
get_draw_score(eval) ==
    LET tenth == trunc_div(-eval, 10)
    IN  IF tenth < -100 THEN -100 ELSE IF tenth > 100 THEN 100 ELSE tenth

\* Searcher::is_draw
is_draw(self) ==
    \/ self.board.halfmove_clock >= 100
    \/ is_three_fold_repetition(self)
    \/ is_insufficient_material(self.board)

\* gen_capture_promotion_moves: the captures and promotions among the moves
gen_capture_promotion_moves(position) ==
    SelectSeq(gen_color_moves(position),
              LAMBDA mov : \/ move_type_of(mov) \in {Capture, EnPassantCapture}
                           \/ promotion_of(mov) # PieceNone)

\* Searcher::quiescence up to its move loop; covered is FALSE when the move
\* list is not empty (the loop is not modelled)
quiescence(self, alpha, beta, ply, in_check) ==
    LET pruned == mate_distance_pruning(ply, alpha, beta)
        entry == TT_probe(self.tt, self.board.zobrist, 0)
        entry_score == IF entry = <<>> THEN <<>>
                       ELSE TTEntryData_probe(entry[1], alpha, beta, ply)
        static_eval == IF self.board.side_to_move = White
                       THEN evaluate(self.board) ELSE -evaluate(self.board)
        alpha1 == IF static_eval > alpha THEN static_eval ELSE alpha
        move_list == IF in_check THEN gen_color_moves(self.board)
                     ELSE gen_capture_promotion_moves(self.board)
        return(score) == [score |-> score, covered |-> TRUE]
    IN  IF pruned # <<>> THEN return(pruned[1])
        ELSE IF entry_score # <<>> THEN return(entry_score[1])
        ELSE IF is_draw(self) THEN return(get_draw_score(static_eval))
        ELSE IF ply >= MAX_PLY THEN return(static_eval)
        ELSE IF static_eval >= beta THEN return(static_eval)
        ELSE IF static_eval + PIECE_VALUES[Queen + 1] + 75 < alpha1 THEN return(alpha1)
        ELSE IF move_list # <<>> THEN [score |-> 0, covered |-> FALSE]
        ELSE IF in_check THEN return(-(CHECKMATE_SCORE - ply))
        ELSE return(static_eval)

\* Searcher::print_info: the score field of the info line
print_info(best_score) ==
    IF abs(best_score) >= CHECKMATE_THRESHOLD
    THEN LET mate_in == (CHECKMATE_SCORE - abs(best_score) + 1) \div 2
         IN  [kind |-> "mate", value |-> IF best_score > 0 THEN mate_in ELSE -mate_in]
    ELSE [kind |-> "cp", value |-> best_score]

\* position <fen>, go depth 1: iterative_deepening before its first root move
RootInit ==
    \E i \in 1 .. Len(MateSuite) :
        \E position \in {BoardNew(MateSuite[i]).board} :
            \E move_list \in {gen_color_moves(position)} :
                unit = [kind |-> "root",
                        board |-> position,
                        history |-> <<position.zobrist>>,
                        tt |-> TT_new(0),
                        moves |-> scored_iter(
                            [j \in 1 .. Len(move_list) |->
                                <<move_list[j],
                                  score_move(move_list[j],
                                             ctx([board |-> position,
                                                  prev_pv |-> <<>>,
                                                  killers |-> NoKillers,
                                                  history_heuristic |-> HistoryHeuristics_new],
                                                 0, <<>>))>>], 1),
                        index |-> 1,
                        alpha |-> -INF,
                        best_score |-> -INF,
                        step_best_move |-> move_list[1],
                        searched |-> {},
                        covered |-> TRUE,
                        broke |-> FALSE,
                        info |-> <<>>]

\* one pass of the root move loop: push_move, is_legal_move, the search of
\* the move at depth 0 and ply 1, pop_move
RootMove ==
    /\ unit.kind = "root"
    /\ unit.index <= Len(unit.moves)
    /\ ~unit.broke
    /\ \E mov \in {unit.moves[unit.index]} :
       \E made \in {make_move(unit.board, mov)} :
          IF ~is_legal_move(mov, made.b)
          THEN unit' = [unit EXCEPT !.index = @ + 1]
          ELSE \E child \in {quiescence([board |-> made.b,
                                         history |-> Append(unit.history, made.b.zobrist),
                                         tt |-> unit.tt],
                                        -INF, -unit.alpha, 1,
                                        is_king_attcked(made.b.side_to_move, made.b))} :
                  LET score == -child.score
                      alpha == IF score > unit.alpha THEN score ELSE unit.alpha
                  IN  unit' = [unit EXCEPT
                          !.index = @ + 1,
                          !.best_score = IF score > @ THEN score ELSE @,
                          !.step_best_move = IF score > unit.best_score THEN mov ELSE @,
                          !.alpha = alpha,
                          !.broke = alpha >= INF,
                          !.searched = @ \cup {mov},
                          !.covered = @ /\ child.covered]
    /\ UNCHANGED <<perftVars, abVars, searchVars>>

\* after the root loop: time_to_stop(true) is false, print_info
RootInfo ==
    /\ unit.kind = "root"
    /\ unit.index > Len(unit.moves) \/ unit.broke
    /\ unit.info = <<>>
    /\ unit' = [unit EXCEPT !.info = <<print_info(unit.best_score)>>]
    /\ UNCHANGED <<perftVars, abVars, searchVars>>
---------------------------------------------------------------------------
(* iterative_deepening: the depths and plies it passes down.  The tree of an
   iteration is reduced to one path of calls. *)

\* largest depth asked for with `go depth`
MaxGoDepth == 66

\* go_depth is the Option<usize> handed to iterative_deepening, call the
\* innermost call of search
DeepenInit ==
    \E depth \in {<<>>} \cup {<<n>> : n \in 1..MaxGoDepth} :
        unit = [kind |-> "deepen",
                pc |-> "root",
                go_depth |-> depth,
                current_depth |-> 1,
                call |-> <<>>]

\* depth.unwrap_or(Searcher::MAX_PLY)
unwrap_or(depth, default) == IF depth = <<>> THEN default ELSE depth[1]

\* the root loop calls search(-beta, -alpha, current_depth - 1, 1, gives_check)
RootCall ==
    /\ unit.kind = "deepen" /\ unit.pc = "root"
    /\ unit' = [unit EXCEPT !.pc = "search",
                            !.call = <<[depth |-> unit.current_depth - 1, ply |-> 1]>>]
    /\ UNCHANGED <<perftVars, abVars, searchVars>>

\* search(.., depth, ply, ..) calls search(.., depth - 1, ply + 1, ..)
Descend ==
    /\ unit.kind = "deepen" /\ unit.pc = "search"
    /\ unit.call[1].depth > 0
    /\ unit' = [unit EXCEPT !.call = <<[depth |-> unit.call[1].depth - 1,
                                        ply |-> unit.call[1].ply + 1]>>]
    /\ UNCHANGED <<perftVars, abVars, searchVars>>

\* the calls return to the root loop, which has no more moves
Unwind ==
    /\ unit.kind = "deepen" /\ unit.pc = "search"
    /\ unit' = [unit EXCEPT !.pc = "end", !.call = <<>>]
    /\ UNCHANGED <<perftVars, abVars, searchVars>>

\* the end of an iteration: time_to_stop(true), then the test of the depth
EndOfIteration ==
    /\ unit.kind = "deepen" /\ unit.pc = "end"
    /\ \E stop \in BOOLEAN :
          IF stop \/ unit.current_depth >= unwrap_or(unit.go_depth, MAX_PLY)
          THEN unit' = [unit EXCEPT !.pc = "done"]
          ELSE unit' = [unit EXCEPT !.pc = "root", !.current_depth = @ + 1]
    /\ UNCHANGED <<perftVars, abVars, searchVars>>
---------------------------------------------------------------------------
(* chess/board.rs: Board::new on the field sequences a `position fen`
   command can carry *)

\* the positions the inputs are made from
FenSuite == <<STARTPOS_FEN, KIWIPETE_FEN, ORDER_FEN, PAWNS_FEN>>

\* characters put in the place of a character of the placement field
PlacementEdits == {"x", "1", "9", "/", "P"}

\* fields put in the place of the en-passant field and of the halfmove field
EnPassantFields == {<<"-">>, <<"e", "3">>, <<"e", "9">>, <<"i", "3">>, <<"x">>, <<"e">>}
HalfmoveFields == {<<"0">>, <<"7">>, <<"x">>, <<"1", "x">>, <<"-", "1">>}

\* a FEN of the suite: cut after some of its fields, or with one character
\* of its placement replaced, or with another en-passant or halfmove field
FenInit ==
    \E k \in 1 .. Len(FenSuite) :
    \E fen \in {FenSuite[k]} :
    \E input \in {SubSeq(fen, 1, n) : n \in 1 .. Len(fen)}
                 \cup {[fen EXCEPT ![1][i] = c] : i \in 1 .. Len(fen[1]), c \in PlacementEdits}
                 \cup {[fen EXCEPT ![4] = field] : field \in EnPassantFields}
                 \cup {[fen EXCEPT ![5] = field] : field \in HalfmoveFields} :
        unit = [kind |-> "fen", fen |-> input, result |-> <<>>]

\* Uci::handle_position: Board::new(&fen)
FenParse ==
    /\ unit.kind = "fen"
    /\ unit.result = <<>>
    /\ unit' = [unit EXCEPT !.result = <<BoardNew(unit.fen)>>]
    /\ UNCHANGED <<perftVars, abVars, searchVars>>

---------------------------------------------------------------------------
(* positions of a game: the walk of perft over positions reached from the
   start position, and over boards with a high halfmove clock *)

\* after 1.d3 e6 2.Nd2 Bb4: the knight on d2 covers the king
UNPIN_FEN ==
    << <<"r", "n", "b", "q", "k", "1", "n", "r", "/", "p", "p", "p", "p", "1", "p", "p",
    "p", "/", "4", "p", "3", "/", "8", "/", "1", "b", "6", "/", "3", "P", "4", "/", "P",
    "P", "P", "N", "P", "P", "P", "P", "/", "R", "1", "B", "Q", "K", "B", "N", "R">>,
    <<"w">>, <<"K", "Q", "k", "q">>, <<"-">>, <<"2">>, <<"3">> >>
\* after 1.b3 g6 2.Bb2 a6: the bishop on b2 attacks the rook on h8
CORNER_FEN ==
    << <<"r", "n", "b", "q", "k", "b", "n", "r", "/", "1", "p", "p", "p", "p", "p", "1",
    "p", "/", "p", "5", "p", "1", "/", "8", "/", "8", "/", "1", "P", "6", "/", "P", "B",
    "P", "P", "P", "P", "P", "P", "/", "R", "N", "1", "Q", "K", "B", "N", "R">>, <<"w">>,
    <<"K", "Q", "k", "q">>, <<"-">>, <<"0">>, <<"3">> >>
\* after 1.h4 g5 2.hxg5 h6 3.gxh6 Nf6 4.h7 Rg8: no piece but two pawns is off the board
PASSED_FEN ==
    << <<"r", "n", "b", "q", "k", "b", "r", "1", "/", "p", "p", "p", "p", "p", "p", "1",
    "P", "/", "5", "n", "2", "/", "8", "/", "8", "/", "8", "/", "P", "P", "P", "P", "P",
    "P", "P", "1", "/", "R", "N", "B", "Q", "K", "B", "N", "R">>, <<"w">>, <<"K", "Q",
    "q">>, <<"-">>, <<"1">>, <<"5">> >>
\* a halfmove clock of 255, the largest Board::new accepts
CLOCK_FEN ==
    << <<"4", "k", "3", "/", "8", "/", "8", "/", "8", "/", "8", "/", "8", "/", "8", "/",
    "4", "K", "2", "R">>, <<"w">>, <<"K">>, <<"-">>, <<"2", "5", "5">>, <<"1", "3", "0">> >>
\* a halfmove clock two below the largest
CLOCK_BELOW_FEN ==
    << <<"4", "k", "3", "/", "8", "/", "8", "/", "8", "/", "8", "/", "8", "/", "8", "/",
    "4", "K", "2", "R">>, <<"w">>, <<"K">>, <<"-">>, <<"2", "5", "3">>, <<"1", "2", "9">> >>

\* positions and depths of the walk
GameSuite ==
    << <<STARTPOS_FEN, 2>>, <<UNPIN_FEN, 2>>, <<CORNER_FEN, 2>>, <<PASSED_FEN, 2>>,
       <<CLOCK_FEN, 1>>, <<CLOCK_BELOW_FEN, 2>> >>

\* perft(board, depth) on a position of the suite
GameInit ==
    /\ \E e \in 1 .. Len(GameSuite) :
         /\ suite = [entry |-> 0, depth |-> GameSuite[e][2]]
         /\ board = BoardNew(GameSuite[e][1]).board
         /\ arg = [depth |-> GameSuite[e][2], legal |-> TRUE]
    /\ frames = <<>>
    /\ pc = "call"
    /\ result = <<>>
    /\ tt = PerftTT_new
    /\ toggle_ok = TRUE
---------------------------------------------------------------------------
(* engine/ordering.rs: static exchange evaluation *)

\* get_attackers: the pieces of attacker_color that attack the square
get_attackers(square, attacker_color, position) ==
    LET occ == occupancy_all(position)
        bb == position.bitboards[attacker_color]
    IN  gen_pawn_captures(square, bb[Pawn], toggle(attacker_color))
            \cup (KNIGHT_ATTACKS[square] \cap bb[Knight])
            \cup (bishop_attacks(square, occ) \cap (bb[Bishop] \cup bb[Queen]))
            \cup (rook_attacks(square, occ) \cap (bb[Rook] \cup bb[Queen]))
            \cup (KING_ATTACKS[square] \cap bb[King])

\* None, or Some((the lowest bit of the attackers of the cheapest type, the type))
get_least_valuable_attacker(attackers, position, side_to_move) ==
    LET simulated_attackers(piece_type) == position.bitboards[side_to_move][piece_type] \cap attackers
        types == {piece_type \in 0 .. 5 : simulated_attackers(piece_type) # {}}
    IN  IF types = {} THEN <<>>
        ELSE LET piece_type == CHOOSE p \in types : \A q \in types : p <= q
             IN  <<{trailing_zeros(simulated_attackers(piece_type))}, piece_type>>

consider_x_rays(square, side_to_move, occupancy, position) ==
    LET attacker_bitboards == position.bitboards[side_to_move]
        bishop_queen_occupancy == attacker_bitboards[Bishop] \cup attacker_bitboards[Queen]
        rook_queen_occupancy == attacker_bitboards[Rook] \cup attacker_bitboards[Queen]
    IN  ((bishop_attacks(square, occupancy) \cap bishop_queen_occupancy)
            \cup (rook_attacks(square, occupancy) \cap rook_queen_occupancy)) \cap occupancy

\* the while loop of see_ge
RECURSIVE see_loop(_, _, _, _, _, _, _, _)
see_loop(position, target, may_x_ray, swap, occupancy, attackers, side_to_move, side_has_advantage) ==
    LET found == get_least_valuable_attacker(attackers, position, side_to_move)
    IN  IF found = <<>> THEN side_has_advantage
        ELSE IF found[2] = King
        THEN (IF attackers \cap occupancy # {} THEN ~side_has_advantage
              ELSE side_has_advantage)
        ELSE LET attacker == found[1]
                 advantage == ~side_has_advantage
                 new_swap == PIECE_VALUES[found[2] + 1] - swap
                 new_occupancy == Xor(occupancy, attacker)
                 remaining == Xor(attackers, attacker)
             IN  IF new_swap < (IF advantage THEN 1 ELSE 0) THEN advantage
                 ELSE see_loop(position, target, may_x_ray, new_swap, new_occupancy,
                               IF attacker \cap may_x_ray # {}
                               THEN remaining \cup consider_x_rays(target, side_to_move,
                                                                   new_occupancy, position)
                               ELSE remaining,
                               toggle(side_to_move), advantage)

\* see_ge((from, initial_attacker), (target, initial_victim), position, threshold)
see_ge(from, initial_attacker, target, initial_victim, position, threshold) ==
    LET swap == PIECE_VALUES[initial_victim + 1] - threshold
        may_x_ray == UNION {position.bitboards[c][p] :
                              <<c, p>> \in {White, Black} \X {Pawn, Bishop, Rook, Queen}}
        occupancy == Xor(occupancy_all(position), {from})
        side_to_move == toggle(position.side_to_move)
    IN  IF swap < 0 THEN FALSE
        ELSE IF PIECE_VALUES[initial_attacker + 1] - swap <= 0 THEN TRUE
        ELSE see_loop(position, target, may_x_ray, PIECE_VALUES[initial_attacker + 1] - swap,
                      occupancy, get_attackers(target, side_to_move, position) \cap occupancy,
                      side_to_move, TRUE)

can_prune_by_see(mov, position) ==
    IF move_type_of(mov) \notin {Capture, EnPassantCapture} THEN FALSE
    ELSE LET from == get_from(mov)
             to == get_to(mov)
             victim == position.pieces[to][1]
             attacker == IF promotion_of(mov) # PieceNone THEN promotion_of(mov)
                         ELSE position.pieces[from][1]
         IN  ~see_ge(from, attacker, to, victim, position, 0)

---------------------------------------------------------------------------
(* can_prune_by_see on the captures of a position *)

\* the square of the exchange (e5), the square from which a white piece of a
\* type captures on it (d4, f3, h2, e2, b2, d4), and the square from which a
\* black piece of a type defends it (d6, f7, h8, e8, a5, e6)
CapturerSquare == <<27, 21, 15, 12, 9, 27>>
DefenderSquare == <<43, 53, 63, 60, 32, 44>>

\* a white piece that can capture a black piece on e5, which a black piece
\* defends or (PieceNone) nothing does; the kings on h1 and a8 unless they
\* take part
exchange_board(capturer, victim, defender) ==
    toggle_all([b |-> EmptyBoard, ok |-> TRUE, panic |-> FALSE],
               <<<<CapturerSquare[capturer + 1], capturer, White>>,
                 <<36, victim, Black>>>>
                   \o (IF capturer = King THEN <<>> ELSE <<<<7, King, White>>>>)
                   \o (IF defender = King THEN <<>> ELSE <<<<56, King, Black>>>>)
                   \o (IF defender = PieceNone THEN <<>>
                       ELSE <<<<DefenderSquare[defender + 1], defender, Black>>>>)).b

\* the boards on which quiescence meets a capture: the exchange boards and
\* the position with promotions and an en-passant capture
SeeInit ==
    \E position \in {exchange_board(capturer, victim, defender) :
                        capturer \in 0 .. 5, victim \in 0 .. 4, defender \in 0 .. 6}
                    \cup {BoardNew(ORDER_FEN).board} :
    \E move_list \in {gen_capture_promotion_moves(position)} :
    \E i \in 1 .. Len(move_list) :
        unit = [kind |-> "see", board |-> position, mov |-> move_list[i], result |-> <<>>]

\* Searcher::quiescence: can_prune_by_see(mov, &self.board)
SeeMove ==
    /\ unit.kind = "see"
    /\ unit.result = <<>>
    /\ unit' = [unit EXCEPT !.result = <<can_prune_by_see(unit.mov, unit.board)>>]
    /\ UNCHANGED <<perftVars, abVars, searchVars>>

---------------------------------------------------------------------------
(* TimeManagement::from_clock and from_millis.  The products with 1.2 and
   0.8 are taken in f64 and cut to u64; for the values below they equal the
   integer quotients by 5. *)

\* remaining times, increments and move times, in milliseconds
ClockTimes == {0, 100, 1000, 60000}
Increments == {0, 100, 3000}
MoveTimes == {0, 1, 4, 5, 99, 1000}

\* the time control of a `go`, before start_search has built the manager
TimeInit ==
    \E color \in {White, Black} :
       \E control \in
            [kind : {"ClockTime"}, white_time_ms : ClockTimes, black_time_ms : ClockTimes,
             white_increment_ms : Increments, black_increment_ms : Increments, millis : {0}]
            \cup [kind : {"MoveTime"}, white_time_ms : {0}, black_time_ms : {0},
                  white_increment_ms : {0}, black_increment_ms : {0}, millis : MoveTimes] :
          unit = [kind |-> "time", color |-> color, control |-> control, time |-> <<>>]

min_of(a, b) == IF a < b THEN a ELSE b

from_clock(color, clock_time) ==
    LET color_time_ms == IF color = White THEN clock_time.white_time_ms
                         ELSE clock_time.black_time_ms
        color_increment_ms == IF color = White THEN clock_time.white_increment_ms
                              ELSE clock_time.black_increment_ms
        base_time == (color_time_ms \div 20) + (color_increment_ms \div 2)
    IN  [hard_limit |-> min_of((base_time * 12) \div 10, color_time_ms),
         soft_limit |-> (base_time * 8) \div 10,
         elapsed_clock |-> 0,
         cached_elapsed |-> 0]

from_millis(millis) ==
    [hard_limit |-> millis,
     soft_limit |-> (millis * 8) \div 10,
     elapsed_clock |-> 0,
     cached_elapsed |-> 0]

\* start_search under TimeControl::ClockTime
FromClock ==
    /\ unit.kind = "time" /\ unit.time = <<>> /\ unit.control.kind = "ClockTime"
    /\ unit' = [unit EXCEPT !.time = <<from_clock(unit.color, unit.control)>>]
    /\ UNCHANGED <<perftVars, abVars, searchVars>>

\* start_search under TimeControl::MoveTime
FromMillis ==
    /\ unit.kind = "time" /\ unit.time = <<>> /\ unit.control.kind = "MoveTime"
    /\ unit' = [unit EXCEPT !.time = <<from_millis(unit.control.millis)>>]
    /\ UNCHANGED <<perftVars, abVars, searchVars>>
---------------------------------------------------------------------------
(* chess/board.rs: toggle_piece called twice with the same arguments *)

\* a board of the suite and a square, piece and colour that meet the debug
\* assertion of toggle_piece: the square is empty, or holds that piece
ToggleInit ==
    \E k \in 1 .. Len(FenSuite) :
    \E position \in {BoardNew(FenSuite[k]).board} :
    \E square \in Squares, piece_type \in 0 .. 5, color \in {White, Black} :
        /\ toggle_precondition(position, square, piece_type, color)
        /\ unit = [kind |-> "toggle", entry |-> position, board |-> position,
                   square |-> square, piece_type |-> piece_type, color |-> color,
                   calls |-> 0]

\* self.toggle_piece(square, piece_type, color)
Toggle ==
    /\ unit.kind = "toggle"
    /\ unit.calls < 2
    /\ unit' = [unit EXCEPT
           !.board = toggle_piece(@, unit.square, unit.piece_type, unit.color),
           !.calls = @ + 1]
    /\ UNCHANGED <<perftVars, abVars, searchVars>>

---------------------------------------------------------------------------
(* engine/search.rs: start_search, iterative_deepening, search and
   quiescence as one machine.  The call stack of search and quiescence is the
   sequence unit.stack, the innermost call last; every frame keeps the locals
   of its call.  The searcher is in Normal mode and no ponderhit arrives:
   once time_to_stop has answered true (Stop, or a limit that is passed) it
   answers true at every later poll. *)

\* PvTable of Searcher::new: every line is empty
PvTable_new == [ply \in 0 .. MAX_PLY - 1 |-> <<>>]

\* PvTable::clear
PvTable_clear(pv_table, ply) == [pv_table EXCEPT ![ply] = <<>>]

\* PvTable::update: the move, then the line of the next ply if it is not empty
PvTable_update(pv_table, ply, mov) ==
    [pv_table EXCEPT ![ply] =
        <<mov>> \o (IF ply + 1 < MAX_PLY /\ pv_table[ply + 1] # <<>>
                    THEN pv_table[ply + 1] ELSE <<>>)]

\* `as i16` of an i32
as_i16(x) == ((x + 32768) % 65536) - 32768

\* HistoryHeuristics::update: new = bonus - old * |bonus| / HISTORY_MAX
HistoryHeuristics_update(table, color, from, to, bonus) ==
    LET clamped_bonus == IF bonus < -20000 THEN -20000
                         ELSE IF bonus > 20000 THEN 20000 ELSE bonus
        old == HistoryHeuristics_get(table, from, to, color)
        new == as_i16(clamped_bonus - trunc_div(old * abs(clamped_bonus), 20000))
        key == <<color, from, to>>
    IN  [k \in DOMAIN table \cup {key} |-> IF k = key THEN new ELSE table[k]]

\* the maluses of update_heuristics: the quiet moves among the first n of the
\* scored list
RECURSIVE apply_maluses(_, _, _, _, _)
apply_maluses(table, color, scored_list, n, bonus) ==
    IF n = 0 THEN table
    ELSE \* the moves are taken front to back
         LET before == apply_maluses(table, color, scored_list, n - 1, bonus)
             quiet_move == scored_list[n]
         IN  IF move_type_of(quiet_move) \in {Capture, EnPassantCapture} THEN before
             ELSE HistoryHeuristics_update(before, color, get_from(quiet_move),
                                           get_to(quiet_move), -bonus)

\* Searcher::update_heuristics(depth, ply, mov, scored_list, move_index): the
\* searcher with its killers and history counters updated.  scored_list is
\* the list in the order scored_iter has left it: the moves already yielded
\* are its first move_index entries
update_heuristics(self, depth, ply, mov, scored_list, move_index) ==
    IF move_type_of(mov) \in {Capture, EnPassantCapture} THEN self
    ELSE LET killers == IF self.killers[ply][1] # <<mov>>
                        THEN [self.killers EXCEPT ![ply] = <<<<mov>>, self.killers[ply][1]>>]
                        ELSE self.killers
             bonus == depth * depth
             color == self.board.side_to_move
             rewarded == HistoryHeuristics_update(self.history_heuristic, color,
                                                  get_from(mov), get_to(mov), bonus)
         IN  [self EXCEPT
                !.killers = killers,
                !.history_heuristic =
                    apply_maluses(rewarded, color, scored_list, move_index, bonus)]

\* score_move indexes MVV_LVA, which has a row for every victim but the king,
\* with the piece on the target square of a capture
score_move_panics(mov, search_ctx) ==
    /\ ~(/\ search_ctx.ply < Len(search_ctx.pv_line)
         /\ search_ctx.pv_line[search_ctx.ply + 1] = mov)
    /\ search_ctx.hash_move # <<mov>>
    /\ promotion_of(mov) = PieceNone
    /\ move_type_of(mov) = Capture
    /\ search_ctx.board.pieces[get_to(mov)][1] \notin {Pawn, Knight, Bishop, Rook, Queen}

\* score(move_list, ctx).scored_iter(): the moves in the order of the loop, or
\* a panic of score_move
score(move_list, search_ctx) ==
    IF \E i \in 1 .. Len(move_list) : score_move_panics(move_list[i], search_ctx)
    THEN [panic |-> TRUE, moves |-> <<>>]
    ELSE [panic |-> FALSE,
          moves |-> scored_iter([i \in 1 .. Len(move_list) |->
                                     <<move_list[i], score_move(move_list[i], search_ctx)>>],
                                1)]

\* the static evaluation of search and quiescence, from the side to move
static_eval_of(position) ==
    IF position.side_to_move = White THEN evaluate(position) ELSE -evaluate(position)
\* 7k/8/8/8/p7/P7/8/K7 w - - 0 1
BLOCKED_FEN ==
    << <<"7", "k", "/", "8", "/", "8", "/", "8", "/", "p", "7", "/", "P", "7", "/", "8",
    "/", "K", "7">>, <<"w">>, <<"-">>, <<"-">>, <<"0">>, <<"1">> >>

\* q3r2k/8/8/8/8/8/8/4K2B w - - 0 1
CHECK_FEN ==
    << <<"q", "3", "r", "2", "k", "/", "8", "/", "8", "/", "8", "/", "8", "/", "8", "/",
    "8", "/", "4", "K", "2", "B">>, <<"w">>, <<"-">>, <<"-">>, <<"0">>, <<"1">> >>

\* 4k3/8/8/8/8/4n3/2P5/K7 w - - 0 1
KNIGHT_FEN ==
    << <<"4", "k", "3", "/", "8", "/", "8", "/", "8", "/", "8", "/", "4", "n", "3", "/",
    "2", "P", "5", "/", "K", "7">>, <<"w">>, <<"-">>, <<"-">>, <<"0">>, <<"1">> >>

\* 6k1/8/8/1q6/8/8/8/4KB1R b K - 0 1
BISHOP_REPLY_FEN ==
    << <<"6", "k", "1", "/", "8", "/", "8", "/", "1", "q", "6", "/", "8", "/", "8", "/",
    "8", "/", "4", "K", "B", "1", "R">>, <<"b">>, <<"K">>, <<"-">>, <<"0">>, <<"1">> >>

\* 7k/6n1/8/8/p7/P7/8/B1K5 w - - 98 1
PINNED_FEN ==
    << <<"7", "k", "/", "6", "n", "1", "/", "8", "/", "8", "/", "p", "7", "/", "P", "7",
    "/", "8", "/", "B", "1", "K", "5">>, <<"w">>, <<"-">>, <<"-">>, <<"9", "8">>, <<"1">> >>

\* Searcher::push_move: the searcher after the move, and the Undo.  asserted
\* records a toggle_piece call that broke its debug assertion
push_move(self, mov) ==
    LET made == make_move(self.board, mov)
    IN  [self |-> [self EXCEPT !.board = made.b,
                               !.history = Append(@, made.b.zobrist),
                               !.asserted = @ \/ ~made.ok],
         undo |-> made.undo,
         panic |-> made.panic]

\* Searcher::pop_move
pop_move(self, undo) ==
    LET undone == undo_move(self.board, undo)
    IN  [self |-> [self EXCEPT !.board = undone.b,
                               !.history = SubSeq(@, 1, Len(@) - 1),
                               !.asserted = @ \/ ~undone.ok],
         panic |-> undone.panic]

\* the answers time_to_stop can give at a poll
time_to_stop_answers(stopped) == IF stopped THEN {TRUE} ELSE {FALSE, TRUE}

\* the call self.search(alpha, beta, depth, ply, in_check): a new frame; at
\* depth 0 search hands the call to quiescence
call_search(self, alpha, beta, depth, ply, in_check) ==
    [self EXCEPT !.stack = Append(@,
        [fn |-> IF depth = 0 THEN "quiescence" ELSE "search",
         pc |-> "enter",
         entry_alpha |-> alpha,
         alpha |-> alpha,
         beta |-> beta,
         depth |-> depth,
         ply |-> ply,
         in_check |-> in_check,
         entry_board |-> self.board,
         entry_history |-> self.history,
         static_eval |-> 0,
         moves |-> <<>>,
         index |-> 1,
         mov |-> 0,
         can_prune |-> FALSE,
         undo |-> <<>>,
         best_score |-> -INF,
         best_move |-> 0,
         found_legal_move |-> FALSE])]

\* the program has panicked: no step follows
panicked(self) == [self EXCEPT !.pc = "panic"]

\* the positions searched, each with the depth of its `go depth` command
TreeSuite ==
    << <<BLOCKED_FEN, 3>>, <<PAWNS_FEN, 4>>, <<EXCHANGE_FEN, 2>>, <<KNIGHT_FEN, 2>>,
       <<CHECK_FEN, 1>>,
       <<BISHOP_FEN, 1>>, <<BISHOP_REPLY_FEN, 2>>,
       <<PINNED_FEN, 2>> >>

\* Searcher::new on the position of a `position fen` command, and the
\* moment Stop arrives: before the search starts or at one of its polls
TreeInit ==
    \E i \in 1 .. Len(TreeSuite), stopped \in BOOLEAN :
    \E position \in {BoardNew(TreeSuite[i][1]).board} :
        unit = [kind |-> "tree",
                pc |-> "new",
                go_depth |-> TreeSuite[i][2],
                stopped |-> stopped,
                board |-> position,
                history |-> <<position.zobrist>>,
                pv_table |-> PvTable_new,
                prev_pv |-> <<>>,
                killers |-> NoKillers,
                history_heuristic |-> HistoryHeuristics_new,
                age |-> 0,
                tt |-> TT_new(2),
                stack |-> <<>>,
                ret |-> <<>>,
                move_list |-> <<>>,
                moves |-> <<>>,
                index |-> 1,
                mov |-> 0,
                undo |-> <<>>,
                current_depth |-> 1,
                alpha |-> -INF,
                beta |-> INF,
                best_score |-> -INF,
                step_best_move |-> 0,
                best_move |-> 0,
                ponder_move |-> <<>>,
                entry_board |-> position,
                entry_history |-> <<position.zobrist>>,
                asserted |-> FALSE,
                restored |-> TRUE,
                aborted |-> 0,
                last_cutoff |-> <<>>,
                overwritten |-> FALSE,
                last_store |-> <<>>,
                completed |-> <<>>,
                result |-> <<>>]

\* start_search up to the loop of iterative_deepening: the move list, the
\* first best move, and the used counter of the table reset
IdStart ==
    /\ unit.kind = "tree"
    /\ unit.pc = "new"
    /\ \E move_list \in {gen_color_moves(unit.board)} :
          IF move_list = <<>> THEN unit' = panicked(unit)
          ELSE unit' = [unit EXCEPT !.pc = "iterate",
                                    !.move_list = move_list,
                                    !.best_move = move_list[1],
                                    !.current_depth = 1,
                                    !.ponder_move = <<>>,
                                    !.tt = [@ EXCEPT !.used = 0]]
    /\ UNCHANGED <<perftVars, abVars, searchVars>>

\* the head of an iteration: the window, the best move so far, the scored
\* moves
IdIterate ==
    /\ unit.kind = "tree"
    /\ unit.pc = "iterate"
    /\ \E scored \in {score(unit.move_list, ctx(unit, 0, <<>>))} :
          IF scored.panic THEN unit' = panicked(unit)
          ELSE unit' = [unit EXCEPT !.pc = "root_loop",
                                    !.alpha = -INF,
                                    !.beta = INF,
                                    !.step_best_move = unit.best_move,
                                    !.best_score = -INF,
                                    !.moves = scored.moves,
                                    !.index = 1]
    /\ UNCHANGED <<perftVars, abVars, searchVars>>

\* the root loop up to the call of search: the poll, push_move,
\* is_legal_move; a move that is not legal is popped
IdMove ==
    /\ unit.kind = "tree"
    /\ unit.pc = "root_loop"
    /\ IF unit.index > Len(unit.moves) THEN unit' = [unit EXCEPT !.pc = "root_end"]
       ELSE \E stop \in (IF unit.current_depth > 1 THEN time_to_stop_answers(unit.stopped)
                         ELSE {FALSE}) :
            IF stop THEN unit' = [unit EXCEPT !.stopped = TRUE, !.pc = "root_end"]
            ELSE \E mov \in {unit.moves[unit.index]} :
                 \E pushed \in {push_move(unit, mov)} :
                    IF pushed.panic \/ is_legal_move_panics(mov, pushed.self.board)
                    THEN unit' = panicked(pushed.self)
                    ELSE IF is_legal_move(mov, pushed.self.board)
                    THEN unit' = call_search(
                             [pushed.self EXCEPT !.pc = "root_wait", !.mov = mov,
                                                 !.undo = pushed.undo],
                             -unit.beta, -unit.alpha, unit.current_depth - 1, 1,
                             is_king_attcked(pushed.self.board.side_to_move,
                                             pushed.self.board))
                    ELSE \E popped \in {pop_move(pushed.self, pushed.undo)} :
                            IF popped.panic THEN unit' = panicked(popped.self)
                            ELSE unit' = [popped.self EXCEPT !.index = @ + 1]
    /\ UNCHANGED <<perftVars, abVars, searchVars>>

\* the root loop after search has returned: the best move and the line of
\* ply 0, the window, pop_move
IdAfter ==
    /\ unit.kind = "tree"
    /\ unit.pc = "root_wait"
    /\ unit.stack = <<>>
    /\ unit.ret # <<>>
    /\ \E score_ \in {-unit.ret[1]} :
       \E improved \in {IF score_ > unit.best_score
                        THEN [unit EXCEPT !.step_best_move = unit.mov,
                                          !.best_score = score_,
                                          !.pv_table = PvTable_update(@, 0, unit.mov),
                                          !.ret = <<>>]
                        ELSE [unit EXCEPT !.ret = <<>>]} :
       \E alpha \in {IF score_ > unit.alpha THEN score_ ELSE unit.alpha} :
          IF alpha >= unit.beta
          THEN \* break: the move stays on the board
               unit' = [update_heuristics(improved, 0, unit.current_depth, unit.mov,
                                          unit.moves, unit.index - 1)
                           EXCEPT !.alpha = alpha, !.pc = "root_end"]
          ELSE \E popped \in {pop_move(improved, unit.undo)} :
                  IF popped.panic THEN unit' = panicked(popped.self)
                  ELSE unit' = [popped.self EXCEPT !.alpha = alpha, !.index = @ + 1,
                                                   !.pc = "root_loop"]
    /\ UNCHANGED <<perftVars, abVars, searchVars>>

\* the end of an iteration: time_to_stop(true), then either the result of
\* the search or the next iteration
IdEnd ==
    /\ unit.kind = "tree"
    /\ unit.pc = "root_end"
    /\ \E stop \in time_to_stop_answers(unit.stopped) :
          IF stop
          THEN \E best_move \in {IF unit.current_depth <= 1 THEN unit.step_best_move
                                 ELSE unit.best_move} :
                  unit' = [unit EXCEPT !.stopped = TRUE,
                                       !.best_move = best_move,
                                       !.pc = "done",
                                       !.result = <<best_move, unit.ponder_move>>]
          ELSE \E pv_line \in {unit.pv_table[0]} :
               \E next \in {[unit EXCEPT
                                !.best_move = unit.step_best_move,
                                !.ponder_move = IF Len(pv_line) >= 2 THEN <<pv_line[2]>>
                                                ELSE <<>>,
                                !.prev_pv = pv_line,
                                !.completed = <<[best_move |-> unit.step_best_move,
                                                 pv_line |-> pv_line,
                                                 depth |-> unit.current_depth]>>]} :
                  IF unit.current_depth >= unit.go_depth
                  THEN unit' = [next EXCEPT !.pc = "done",
                                            !.result = <<next.best_move, next.ponder_move>>]
                  ELSE unit' = [next EXCEPT !.current_depth = @ + 1, !.pc = "iterate"]
    /\ UNCHANGED <<perftVars, abVars, searchVars>>

\* the frame of the innermost call
frame_of(self) == self.stack[Len(self.stack)]

\* the innermost call with its locals changed
with_frame(self, frame) == [self EXCEPT !.stack[Len(self.stack)] = frame]

\* `return score` of the innermost call; restored records whether every call
\* so far has returned with the board and the history it was entered with,
\* aborted how many of the calls on the stack enclose a call that a poll has
\* stopped
return_from(self, score_) ==
    [self EXCEPT !.stack = SubSeq(@, 1, Len(@) - 1),
                 !.ret = <<score_>>,
                 !.aborted = IF @ < Len(self.stack) - 1 THEN @ ELSE Len(self.stack) - 1,
                 !.restored = /\ @
                              /\ self.board = frame_of(self).entry_board
                              /\ self.history = frame_of(self).entry_history]

\* the cutoff of the node of frame, with the searcher before and after its
\* update_heuristics
cutoff_noted(before, updated, frame) ==
    [updated EXCEPT !.last_cutoff =
        <<[ply |-> frame.ply, depth |-> frame.depth, mov |-> frame.mov,
           color |-> before.board.side_to_move,
           tried |-> SubSeq(frame.moves, 1, frame.index - 1),
           killers_before |-> before.killers, killers_after |-> updated.killers,
           history_before |-> before.history_heuristic,
           history_after |-> updated.history_heuristic]>>]

\* time_to_stop has answered true in the innermost call
stop_answered(self) == [self EXCEPT !.stopped = TRUE, !.aborted = Len(self.stack)]

\* the table entry found at the head of search and quiescence, the move it
\* names and the score it cuts the node off with
probe_entry(self, frame) ==
    LET entry == TT_probe(self.tt, self.board.zobrist, frame.depth)
    IN  [hash_move |-> IF entry = <<>> THEN <<>> ELSE <<entry[1].best_move>>,
         entry_score |-> IF entry = <<>> THEN <<>>
                         ELSE TTEntryData_probe(entry[1], frame.alpha, frame.beta,
                                                frame.ply)]

\* the store at the exit of search and quiescence, and the record of it
store_node(self, frame, best_move) ==
    LET bound == Bound_from_score(frame.best_score, frame.alpha, frame.beta)
    IN  [self EXCEPT
           !.tt = TT_store(@, self.board.zobrist, frame.depth, frame.best_score,
                           best_move, bound, self.age, frame.ply),
           !.last_store = <<[fn |-> frame.fn,
                             key |-> self.board.zobrist,
                             depth |-> frame.depth,
                             ply |-> frame.ply,
                             entry_alpha |-> frame.entry_alpha,
                             beta |-> frame.beta,
                             best_score |-> frame.best_score,
                             best_move |-> best_move,
                             bound |-> bound,
                             after_stop |-> Len(self.stack) <= self.aborted]>>]

\* search from its entry to its move loop: mate-distance pruning, the probe
\* of the table, the draw test, the scored moves
SearchEnter ==
    /\ unit.kind = "tree"
    /\ unit.pc \notin {"panic", "done"}
    /\ unit.stack # <<>>
    /\ \E frame \in {frame_of(unit)} :
       /\ frame.fn = "search"
       /\ frame.pc = "enter"
       /\ \E pruned \in {mate_distance_pruning(frame.ply, frame.alpha, frame.beta)} :
          \E probed \in {probe_entry(unit, frame)} :
          \E static_eval \in {static_eval_of(unit.board)} :
             IF pruned # <<>> THEN unit' = return_from(unit, pruned[1])
             ELSE IF probed.entry_score # <<>>
             THEN unit' = return_from(unit, probed.entry_score[1])
             ELSE IF is_draw(unit)
             THEN unit' = return_from([unit EXCEPT !.pv_table = PvTable_clear(@, frame.ply)],
                                      get_draw_score(static_eval))
             ELSE \E scored \in {score(gen_color_moves(unit.board),
                                       ctx(unit, frame.ply, probed.hash_move))} :
                     IF scored.panic THEN unit' = panicked(unit)
                     ELSE unit' = with_frame(unit,
                              [frame EXCEPT !.pc = "loop",
                                            !.static_eval = static_eval,
                                            !.best_score = -INF,
                                            !.found_legal_move = FALSE,
                                            !.moves = scored.moves,
                                            !.index = 1])
    /\ UNCHANGED <<perftVars, abVars, searchVars>>

\* one pass of the move loop of search up to the recursive call: push_move,
\* is_legal_move; a move that is not legal is popped
SearchMove ==
    /\ unit.kind = "tree"
    /\ unit.pc \notin {"panic", "done"}
    /\ unit.stack # <<>>
    /\ \E frame \in {frame_of(unit)} :
       /\ frame.fn = "search"
       /\ frame.pc = "loop"
       /\ frame.index <= Len(frame.moves)
       /\ \E mov \in {frame.moves[frame.index]} :
          \E pushed \in {push_move(unit, mov)} :
             IF pushed.panic \/ is_legal_move_panics(mov, pushed.self.board)
             THEN unit' = panicked(pushed.self)
             ELSE IF ~is_legal_move(mov, pushed.self.board)
             THEN \E popped \in {pop_move(pushed.self, pushed.undo)} :
                     IF popped.panic THEN unit' = panicked(popped.self)
                     ELSE unit' = with_frame(popped.self, [frame EXCEPT !.index = @ + 1])
             ELSE unit' = call_search(
                      with_frame(pushed.self,
                                 [frame EXCEPT !.pc = "wait", !.mov = mov,
                                               !.undo = pushed.undo,
                                               !.found_legal_move = TRUE]),
                      -frame.beta, -frame.alpha, frame.depth - 1, frame.ply + 1,
                      is_king_attcked(pushed.self.board.side_to_move, pushed.self.board))
    /\ UNCHANGED <<perftVars, abVars, searchVars>>

\* the move loop of search after the recursive call: pop_move, the best
\* score and the line of the ply, the window, the beta cutoff, the poll
SearchAfter ==
    /\ unit.kind = "tree"
    /\ unit.pc \notin {"panic", "done"}
    /\ unit.stack # <<>>
    /\ unit.ret # <<>>
    /\ \E frame \in {frame_of(unit)} :
       /\ frame.fn = "search"
       /\ frame.pc = "wait"
       /\ \E score_ \in {-unit.ret[1]} :
          \E popped \in {pop_move([unit EXCEPT !.ret = <<>>], frame.undo)} :
          \E improved \in {IF score_ > frame.best_score
                           THEN [popped.self EXCEPT
                                    !.pv_table = PvTable_update(@, frame.ply, frame.mov)]
                           ELSE popped.self} :
          \E after \in {[frame EXCEPT
                            !.best_score = IF score_ > @ THEN score_ ELSE @,
                            !.alpha = IF score_ > @ THEN score_ ELSE @]} :
             IF popped.panic THEN unit' = panicked(popped.self)
             ELSE IF after.alpha >= after.beta
             THEN unit' = return_from(
                      cutoff_noted(with_frame(improved, after),
                                   update_heuristics(with_frame(improved, after), frame.ply, frame.depth,
                                                     frame.mov, frame.moves, frame.index - 1),
                                   after),
                      after.alpha)
             ELSE \E stop \in time_to_stop_answers(unit.stopped) :
                     IF stop
                     THEN unit' = return_from(stop_answered(with_frame(improved, after)),
                                              after.alpha)
                     ELSE unit' = with_frame(improved,
                                             [after EXCEPT !.index = @ + 1, !.pc = "loop"])
    /\ UNCHANGED <<perftVars, abVars, searchVars>>

\* search after its move loop: the store of the node, or the mate or
\* stalemate score of a node without a legal move
SearchLeave ==
    /\ unit.kind = "tree"
    /\ unit.pc \notin {"panic", "done"}
    /\ unit.stack # <<>>
    /\ \E frame \in {frame_of(unit)} :
       /\ frame.fn = "search"
       /\ frame.pc = "loop"
       /\ frame.index > Len(frame.moves)
       /\ IF frame.found_legal_move
          THEN IF unit.pv_table[frame.ply] = <<>> THEN unit' = panicked(unit)
               ELSE unit' = return_from(store_node(unit, frame, unit.pv_table[frame.ply][1]),
                                        frame.best_score)
          ELSE unit' = return_from(
                   [unit EXCEPT !.pv_table = PvTable_clear(@, frame.ply)],
                   IF frame.in_check THEN -(CHECKMATE_SCORE - frame.ply)
                   ELSE get_draw_score(frame.static_eval))
    /\ UNCHANGED <<perftVars, abVars, searchVars>>

\* quiescence from its entry to its move loop: mate-distance pruning, the
\* probe of the table, the draw test, the poll, stand-pat, delta pruning, the
\* scored moves
QuiescenceEnter ==
    /\ unit.kind = "tree"
    /\ unit.pc \notin {"panic", "done"}
    /\ unit.stack # <<>>
    /\ \E frame \in {frame_of(unit)} :
       /\ frame.fn = "quiescence"
       /\ frame.pc = "enter"
       /\ \E pruned \in {mate_distance_pruning(frame.ply, frame.alpha, frame.beta)} :
          \E probed \in {probe_entry(unit, frame)} :
          \E static_eval \in {static_eval_of(unit.board)} :
          \E alpha \in {IF static_eval > frame.alpha THEN static_eval ELSE frame.alpha} :
             IF pruned # <<>> THEN unit' = return_from(unit, pruned[1])
             ELSE IF probed.entry_score # <<>>
             THEN unit' = return_from(unit, probed.entry_score[1])
             ELSE IF is_draw(unit) THEN unit' = return_from(unit, get_draw_score(static_eval))
             ELSE \E stop \in time_to_stop_answers(unit.stopped) :
                IF stop THEN unit' = return_from(stop_answered(unit), static_eval)
                ELSE IF frame.ply >= MAX_PLY THEN unit' = return_from(unit, static_eval)
                ELSE IF static_eval >= frame.beta THEN unit' = return_from(unit, static_eval)
                ELSE IF static_eval + PIECE_VALUES[Queen + 1] + 75 < alpha
                THEN unit' = return_from(unit, alpha)
                ELSE \E scored \in
                         {score(IF frame.in_check THEN gen_color_moves(unit.board)
                                ELSE gen_capture_promotion_moves(unit.board),
                                ctx(unit, frame.ply, probed.hash_move))} :
                        IF scored.panic THEN unit' = panicked(unit)
                        ELSE unit' = with_frame(unit,
                                 [frame EXCEPT !.pc = "loop",
                                               !.static_eval = static_eval,
                                               !.best_score = static_eval,
                                               !.alpha = alpha,
                                               !.best_move = 0,
                                               !.found_legal_move = FALSE,
                                               !.moves = scored.moves,
                                               !.index = 1])
    /\ UNCHANGED <<perftVars, abVars, searchVars>>

\* one pass of the move loop of quiescence up to the recursive call:
\* can_prune_by_see, push_move, is_legal_move; a move that is not legal, or
\* that is pruned, is popped
QuiescenceMove ==
    /\ unit.kind = "tree"
    /\ unit.pc \notin {"panic", "done"}
    /\ unit.stack # <<>>
    /\ \E frame \in {frame_of(unit)} :
       /\ frame.fn = "quiescence"
       /\ frame.pc = "loop"
       /\ frame.index <= Len(frame.moves)
       /\ \E mov \in {frame.moves[frame.index]} :
          \E can_prune \in {~frame.in_check /\ can_prune_by_see(mov, unit.board)} :
          \E pushed \in {push_move(unit, mov)} :
             IF pushed.panic \/ is_legal_move_panics(mov, pushed.self.board)
             THEN unit' = panicked(pushed.self)
             ELSE \E popped \in {pop_move(pushed.self, pushed.undo)} :
                  \E gives_check \in {is_king_attcked(pushed.self.board.side_to_move,
                                                      pushed.self.board)} :
                     IF ~is_legal_move(mov, pushed.self.board)
                     THEN IF popped.panic THEN unit' = panicked(popped.self)
                          ELSE unit' = with_frame(popped.self,
                                                  [frame EXCEPT !.index = @ + 1])
                     ELSE IF can_prune /\ ~gives_check
                     THEN IF popped.panic THEN unit' = panicked(popped.self)
                          ELSE unit' = with_frame(popped.self,
                                                  [frame EXCEPT !.index = @ + 1,
                                                                !.found_legal_move = TRUE])
                     ELSE unit' = call_search(
                              with_frame(pushed.self,
                                         [frame EXCEPT !.pc = "wait", !.mov = mov,
                                                       !.undo = pushed.undo,
                                                       !.found_legal_move = TRUE]),
                              -frame.beta, -frame.alpha, 0, frame.ply + 1, gives_check)
    /\ UNCHANGED <<perftVars, abVars, searchVars>>

\* the move loop of quiescence after the recursive call: pop_move, the best
\* score and move, the window, the beta cutoff or the poll
QuiescenceAfter ==
    /\ unit.kind = "tree"
    /\ unit.pc \notin {"panic", "done"}
    /\ unit.stack # <<>>
    /\ unit.ret # <<>>
    /\ \E frame \in {frame_of(unit)} :
       /\ frame.fn = "quiescence"
       /\ frame.pc = "wait"
       /\ \E score_ \in {-unit.ret[1]} :
          \E popped \in {pop_move([unit EXCEPT !.ret = <<>>], frame.undo)} :
          \E after \in {[frame EXCEPT
                            !.best_score = IF score_ > @ THEN score_ ELSE @,
                            !.best_move = IF score_ > frame.best_score THEN frame.mov ELSE @,
                            !.alpha = IF score_ > @ THEN score_ ELSE @]} :
             IF popped.panic THEN unit' = panicked(popped.self)
             ELSE IF after.alpha >= after.beta
             THEN unit' = return_from(with_frame(popped.self, after), after.alpha)
             ELSE \E stop \in time_to_stop_answers(unit.stopped) :
                     IF stop
                     THEN unit' = return_from(stop_answered(with_frame(popped.self, after)),
                                              after.alpha)
                     ELSE unit' = with_frame(popped.self,
                                             [after EXCEPT !.index = @ + 1, !.pc = "loop"])
    /\ UNCHANGED <<perftVars, abVars, searchVars>>

\* quiescence after its move loop: the store of the node, or the mate or
\* stand-pat score of a node in which no legal move was found
QuiescenceLeave ==
    /\ unit.kind = "tree"
    /\ unit.pc \notin {"panic", "done"}
    /\ unit.stack # <<>>
    /\ \E frame \in {frame_of(unit)} :
       /\ frame.fn = "quiescence"
       /\ frame.pc = "loop"
       /\ frame.index > Len(frame.moves)
       /\ IF frame.found_legal_move
          THEN unit' = return_from(store_node(unit, frame, frame.best_move),
                                   frame.best_score)
          ELSE unit' = return_from(unit,
                                   IF frame.in_check THEN -(CHECKMATE_SCORE - frame.ply)
                                   ELSE frame.best_score)
    /\ UNCHANGED <<perftVars, abVars, searchVars>>

\* the mode flag is shared: the worker of an earlier `go` ends its
\* start_search with the store of Normal, which overwrites a Stop that this
\* search has already polled
StaleStore ==
    /\ unit.kind = "tree"
    /\ unit.pc \notin {"new", "panic", "done"}
    /\ unit.stopped
    /\ ~unit.overwritten
    /\ unit' = [unit EXCEPT !.stopped = FALSE, !.overwritten = TRUE]
    /\ UNCHANGED <<perftVars, abVars, searchVars>>
---------------------------------------------------------------------------
(* uci.rs: the protocol thread and the workers it spawns.  The search of a
   worker is reduced to its accesses to the shared mode flag. *)

\* commands the protocol thread handles in a run
MaxCommands == 4

\* Uci::new: no worker, mode Normal; workers lists every thread spawned so
\* far, start_mode the flag at the moment of the spawn
UciInit ==
    unit = [kind |-> "uci",
            pc |-> "read",
            search_mode |-> Normal,
            worker |-> 0,
            workers |-> <<>>,
            commands |-> 0,
            go_commands |-> 0,
            bestmoves |-> 0]

uci_reads(self) == self.kind = "uci" /\ self.pc = "read" /\ self.commands < MaxCommands

\* handle_go with `ponder` among its tokens or not: the flag is written only
\* for `ponder`; the new thread replaces the handle without a join
handle_go(self, ponder) ==
    LET mode == IF ponder THEN Ponder ELSE self.search_mode
    IN  [self EXCEPT !.search_mode = mode,
                     !.workers = Append(@, [pc |-> "search", ponder |-> ponder, start_mode |-> mode]),
                     !.worker = Len(self.workers) + 1,
                     !.go_commands = @ + 1,
                     !.commands = @ + 1]

CmdGo ==
    /\ uci_reads(unit)
    /\ \E ponder \in BOOLEAN : unit' = handle_go(unit, ponder)
    /\ UNCHANGED <<perftVars, abVars, searchVars>>

\* `go perft n`: divide is printed by the protocol thread, no search
CmdGoPerft ==
    /\ uci_reads(unit)
    /\ unit' = [unit EXCEPT !.commands = @ + 1]
    /\ UNCHANGED <<perftVars, abVars, searchVars>>

CmdStop ==
    /\ uci_reads(unit)
    /\ unit' = [unit EXCEPT !.search_mode = Stop, !.commands = @ + 1]
    /\ UNCHANGED <<perftVars, abVars, searchVars>>

\* `ponderhit`: the load, and the store that follows it when Ponder was read
CmdPonderHit ==
    /\ uci_reads(unit)
    /\ unit' = [unit EXCEPT !.pc = IF unit.search_mode = Ponder THEN "hit" ELSE "read",
                            !.commands = @ + 1]
    /\ UNCHANGED <<perftVars, abVars, searchVars>>

CmdPonderHitStore ==
    /\ unit.kind = "uci" /\ unit.pc = "hit"
    /\ unit' = [unit EXCEPT !.search_mode = PonderHit, !.pc = "read"]
    /\ UNCHANGED <<perftVars, abVars, searchVars>>

\* `ucinewgame`: stop_and_join stores Stop ...
CmdNewGame ==
    /\ uci_reads(unit)
    /\ unit' = [unit EXCEPT !.search_mode = Stop, !.pc = "join", !.commands = @ + 1]
    /\ UNCHANGED <<perftVars, abVars, searchVars>>

\* ... and joins the thread of the handle, if there is one
stop_and_join ==
    /\ unit.kind = "uci" /\ unit.pc = "join"
    /\ unit.worker # 0 => unit.workers[unit.worker].pc = "done"
    /\ unit' = [unit EXCEPT !.worker = 0, !.pc = "read"]
    /\ UNCHANGED <<perftVars, abVars, searchVars>>

\* a poll of time_to_stop in worker w: PonderHit is answered by the store of
\* Normal, Stop ends the search, a clock is read unless the mode is Ponder
WorkerPoll ==
    /\ unit.kind = "uci"
    /\ \E w \in 1..Len(unit.workers) :
        /\ unit.workers[w].pc = "search"
        /\ \E timeout \in BOOLEAN :
            LET mode == unit.search_mode
                stop == mode = Stop \/ (polls_clock(mode) /\ timeout)
            IN  /\ mode = PonderHit => ~timeout
                /\ unit' = [unit EXCEPT !.workers[w].pc =
                                IF mode = PonderHit THEN "hit"
                                ELSE IF stop THEN "guard" ELSE "search"]
    /\ UNCHANGED <<perftVars, abVars, searchVars>>

WorkerHitStore ==
    /\ unit.kind = "uci"
    /\ \E w \in 1..Len(unit.workers) :
        /\ unit.workers[w].pc = "hit"
        /\ unit' = [unit EXCEPT !.search_mode = Normal, !.workers[w].pc = "search"]
    /\ UNCHANGED <<perftVars, abVars, searchVars>>

\* iterative_deepening of worker w reaches its depth
WorkerDepth ==
    /\ unit.kind = "uci"
    /\ \E w \in 1..Len(unit.workers) :
        /\ unit.workers[w].pc = "search"
        /\ unit' = [unit EXCEPT !.workers[w].pc = "guard"]
    /\ UNCHANGED <<perftVars, abVars, searchVars>>

\* the last statement of start_search
WorkerGuard ==
    /\ unit.kind = "uci"
    /\ \E w \in 1..Len(unit.workers) :
        /\ unit.workers[w].pc = "guard"
        /\ unit' = [unit EXCEPT !.search_mode = Normal, !.workers[w].pc = "reply"]
    /\ UNCHANGED <<perftVars, abVars, searchVars>>

\* the closure of the thread sends `bestmove` and ends
WorkerReply ==
    /\ unit.kind = "uci"
    /\ \E w \in 1..Len(unit.workers) :
        /\ unit.workers[w].pc = "reply"
        /\ unit' = [unit EXCEPT !.bestmoves = @ + 1, !.workers[w].pc = "done"]
    /\ UNCHANGED <<perftVars, abVars, searchVars>>

alive_workers(self) == {w \in 1..Len(self.workers) : self.workers[w].pc # "done"}
---------------------------------------------------------------------------
(* Properties of the perft walk (Spec) *)

\* the move the perft loop is about to make, or has just made
current_move == top.moves[top.idx]

\* material, PST sums and phase of the pieces the mailbox holds on squares
\* lo .. hi, as toggle_piece adds them for a piece put on an empty square
RECURSIVE from_mailbox(_, _, _)
from_mailbox(pieces, lo, hi) ==
    IF lo = hi
    THEN (IF pieces[lo][1] = PieceNone THEN EmptyBoard
          ELSE toggle_piece(EmptyBoard, lo, pieces[lo][1], pieces[lo][2]))
    ELSE LET mid == (lo + hi) \div 2
             low == from_mailbox(pieces, lo, mid)
             high == from_mailbox(pieces, mid + 1, hi)
         IN  [EmptyBoard EXCEPT
                !.material = [c \in {White, Black} |-> low.material[c] + high.material[c]],
                !.bonus = [c \in {White, Black} |-> WAdd(low.bonus[c], high.bonus[c])],
                !.phase = low.phase + high.phase]

\* C1: on every board the walk reaches, make_move of the next generated move
\* followed by undo_move of the returned Undo gives back the same board, in
\* every field
MakeThenUndoRestoresBoard ==
    pc = "loop" /\ top.idx <= Len(top.moves) =>
        LET made == make_move(board, current_move)
            undone == undo_move(made.b, made.undo)
        IN  ~made.panic /\ ~undone.panic => undone.b = board

\* C2: after Board::new and after every make_move and undo_move of the walk,
\* the incrementally maintained zobrist equals calculate_zobrist()
ZobristIsIncremental ==
    pc \in {"call", "loop", "made", "undo", "done"} =>
        board.zobrist = calculate_zobrist(board)

\* C2 is exercised: make_move has just played an en-passant capture, which
\* takes the key of the old en-passant file out of the hash, and the
\* incremental hash is the recomputed one
ZobristWitness ==
    /\ pc = "made"
    /\ move_type_of(current_move) = EnPassantCapture
    /\ top.before[1].en_passant_square # <<>>
    /\ board.en_passant_square = <<>>
    /\ board.zobrist # top.before[1].zobrist
    /\ board.zobrist = calculate_zobrist(board)

\* C3: on every board of the walk the mailbox, the bitboards and the
\* occupancies agree, no square belongs to both colours, and material, PST
\* sums and phase equal their recomputation from the mailbox
RepresentationsAgree ==
    pc \in {"call", "loop", "made", "undo", "done"} =>
        /\ \A s \in Squares : \A c \in {White, Black} : \A p \in 0 .. 5 :
              (board.pieces[s] = <<p, c>>) <=> (s \in board.bitboards[c][p])
        /\ \A c \in {White, Black} :
              board.occupancies[c] = UNION {board.bitboards[c][p] : p \in 0 .. 5}
        /\ board.occupancies[White] \cap board.occupancies[Black] = {}
        /\ LET fresh == from_mailbox(board.pieces, 0, BOARD_SIZE - 1)
           IN  /\ board.material = fresh.material
               /\ board.bonus = fresh.bonus
               /\ board.phase = fresh.phase

\* C4: perft returns the published number of legal move sequences for the
\* position and depth of the run
PerftMatchesPublished ==
    pc = "done" => result[1] = PerftSuite[suite.entry].nodes[suite.depth]

\* C5: for a move other than castling, is_legal_move on the board after
\* make_move holds exactly when the king of the side that moved is not attacked
LegalIffOwnKingSafe ==
    pc = "made" /\ ~is_castle(current_move) /\ ~is_legal_move_panics(current_move, board) =>
        (is_legal_move(current_move, board)
            <=> king_safe(board, top.before[1].side_to_move))

\* C6: a castling move passes is_legal_move only if, before the move, the
\* squares between king and rook were empty and the king's origin, transit
\* and destination squares were not attacked
CastlingNeedsClearSafePath ==
    pc = "made" /\ is_castle(current_move) /\ is_legal_move(current_move, board) =>
        /\ castle_path_clear(top.before[1], current_move)
        /\ castle_path_safe(top.before[1], current_move)

\* C7: in a position reached from the start position by legal moves, every
\* toggle_piece call of make_move and of the matching undo_move, for every
\* generated move, meets the precondition of toggle_piece
TogglePreconditionHolds ==
    /\ pc = "loop"
    /\ suite.entry = 1
    /\ top.legal
    /\ toggle_ok
    /\ top.idx <= Len(top.moves)
    => LET made == make_move(board, current_move)
       IN  /\ made.ok
           /\ ~made.panic => undo_move(made.b, made.undo).ok

---------------------------------------------------------------------------
(* Properties of test_transposition (SpecAB) *)

---------------------------------------------------------------------------
(* Properties of the search thread and the protocol thread (SpecSearch) *)

\* C9: a search ended by Stop or by a time limit returns the best move of
\* the most recently completed iteration, or of the first iteration if none
\* had completed
StoppedSearchReturnsLastCompleted ==
    searcher.pc = "returned" /\ ghost.stopped =>
        searcher.best_move = IF ghost.completed # <<>> THEN ghost.completed[1]
                             ELSE ghost.first[1]

\* C10: a Stop stored while the search runs stays in the mode flag until the
\* search has left its loop: no store of the search thread overwrites it
StopIsNeverOverwritten ==
    [][search_mode = Stop /\ searcher.pc \in {"start", "loop", "search", "broke", "ponderhit"}
          => search_mode' = Stop]_vars

PonderSkipsClock ==
    ghost.last_poll # <<>> /\ ghost.last_poll[1].mode = Ponder => ~ghost.last_poll[1].stop

\* C12 is exercised: a poll after the root moves (depth complete) read Ponder
\* while a time manager was installed, and the search went on
PonderWitness ==
    /\ ghost.last_poll # <<>>
    /\ ghost.last_poll[1].mode = Ponder
    /\ ghost.last_poll[1].complete
    /\ time # <<>>
    /\ searcher.pc = "loop"
    /\ searcher.current_depth > 1

\* C13: whatever the interleaving of stores and probes on a bucket, a probe
\* for key k never returns a payload that was stored for another key and not
\* for k
ProbeReturnsOwnPayload ==
    unit.kind = "race" /\ unit.result # <<>> =>
        \/ unit.result[1] \in unit.stored
        \/ \A s \in unit.stored : s.data # unit.result[1].data

\* C14: a call of TT::store writes at most one entry of the bucket, and what
\* it writes is the new entry.  With an entry of the same key in the bucket,
\* that entry is the one written, and it is written iff the new depth is at
\* least its depth.  Otherwise the first entry of another age is written;
\* with none, an entry of smallest depth is written
StoreChoosesSlot ==
    unit.kind = "store" /\ unit.last # <<>> =>
        LET old == unit.before.table[0]
            new == unit.tt.table[0]
            e == unit.last[1]
            written == {j \in 1 .. BUCKET_SIZE : new[j] # old[j]}
            same == {j \in 1 .. BUCKET_SIZE : old[j].key = e.key}
            aged == {j \in 1 .. BUCKET_SIZE : old[j].age # e.age}
        IN  /\ Cardinality(written) <= 1
            /\ \A j \in written : new[j] = e
            /\ same # {} =>
                  \E j \in same :
                     /\ written \subseteq {j}
                     /\ e.depth >= old[j].depth => new[j] = e
                     /\ e.depth < old[j].depth => written = {}
            /\ same = {} /\ aged # {} =>
                  \E j \in aged : new[j] = e /\ \A k \in aged : j <= k
            /\ same = {} /\ aged = {} =>
                  \E j \in 1 .. BUCKET_SIZE :
                     new[j] = e /\ \A k \in 1 .. BUCKET_SIZE : old[j].depth <= old[k].depth

\* C14 is exercised: the bucket held two other keys of the current age, the
\* second the shallower, and the call replaced the second entry
StoreWitness ==
    /\ unit.kind = "store"
    /\ unit.last # <<>>
    /\ \A j \in 1 .. BUCKET_SIZE :
          /\ unit.before.table[0][j].key # unit.last[1].key
          /\ unit.before.table[0][j].age = unit.last[1].age
    /\ unit.before.table[0][2].depth < unit.before.table[0][1].depth
    /\ unit.tt.table[0][2] = unit.last[1]
    /\ unit.tt.table[0][1] = unit.before.table[0][1]

\* C15: a node stored at ply p1 whose side to move mates in d plies has the
\* score CHECKMATE_SCORE - (p1 + d); probed at ply p2 the entry yields
\* CHECKMATE_SCORE - (p2 + d), and the negated value for a side that is
\* mated (d is odd for the side that mates, even and at least 2 for the side
\* that is mated: a node without a legal move is not stored)
MateScoreFollowsPly ==
    unit.kind = "mate" /\ unit.probed # <<>> /\ abs(unit.score) > CHECKMATE_THRESHOLD =>
        LET d == CHECKMATE_SCORE - abs(unit.score) - unit.ply
            expected == CHECKMATE_SCORE - (unit.probed[1].ply + d)
        IN  d >= 1 /\ d % 2 = (IF unit.score > 0 THEN 1 ELSE 0) =>
               unit.probed[1].score = IF unit.score > 0 THEN expected ELSE -expected

\* C16: a score stored at a ply and probed at the same ply comes back unchanged
ProbeInvertsStore ==
    unit.kind = "mate" /\ unit.probed # <<>> /\ unit.probed[1].ply = unit.ply =>
        unit.probed[1].score = unit.score

\* C18: is_three_fold_repetition is true exactly when at least two earlier
\* positions of the history, an even number of plies back and at most
\* halfmove_clock plies back, have the hash of the current position
RepetitionIsThirdOccurrence ==
    unit.kind = "history" =>
        LET len == Len(unit.history)
            earlier == {k \in 1 .. unit.board.halfmove_clock :
                           /\ k % 2 = 0
                           /\ k < len
                           /\ unit.history[len - k] = unit.board.zobrist}
        IN  is_three_fold_repetition(unit) <=> Cardinality(earlier) >= 2

\* C19: is_insufficient_material is true iff no pawn, rook or queen is on the
\* board and either both sides together have at most one minor piece, or
\* all there is besides the kings is one or two knights of one side, White
\* or Black
InsufficientMaterialIsExact ==
    unit.kind = "material" /\ unit.result # <<>> =>
        LET extras == unit.white \o unit.black
            count(piece_type) == Cardinality({i \in 1 .. Len(extras) : extras[i] = piece_type})
            heavy == count(Pawn) + count(Rook) + count(Queen)
            minors == count(Knight) + count(Bishop)
            knights_of_one_side ==
                /\ count(Bishop) = 0
                /\ count(Knight) <= 2
                /\ unit.white = <<>> \/ unit.black = <<>>
        IN  unit.result[1] <=> (heavy = 0 /\ (minors <= 1 \/ knights_of_one_side))

MateInOneIsReported ==
    unit.kind = "root" /\ unit.info # <<>> /\ unit.covered =>
        LET root == BoardNew(MateSuite[CHOOSE i \in 1 .. Len(MateSuite) :
                       BoardNew(MateSuite[i]).board.zobrist = unit.history[1]]).board
            mates(mov) ==
                LET after == make_move(root, mov).b
                    replies == gen_color_moves(after)
                IN  /\ rules_legal(root, mov, after)
                    /\ ~king_safe(after, after.side_to_move)
                    /\ \A j \in 1 .. Len(replies) :
                          ~rules_legal(after, replies[j], make_move(after, replies[j]).b)
            root_moves == gen_color_moves(root)
        IN  (\E j \in 1 .. Len(root_moves) : mates(root_moves[j])) =>
                unit.info[1] = [kind |-> "mate", value |-> 1]


\* the class of a move in the priority list of the move ordering: 1 the move
\* of the previous line, 2 the table move, 3 queen or knight promotion,
\* 4 bishop or rook promotion, 5 capture, 6 en-passant capture, 7 first
\* killer, 8 second killer, 9 any other move
move_class(mov, search_ctx) ==
    IF /\ search_ctx.ply < Len(search_ctx.pv_line)
       /\ search_ctx.pv_line[search_ctx.ply + 1] = mov THEN 1
    ELSE IF search_ctx.hash_move = <<mov>> THEN 2
    ELSE IF promotion_of(mov) \in {Queen, Knight} THEN 3
    ELSE IF promotion_of(mov) \in {Bishop, Rook} THEN 4
    ELSE IF move_type_of(mov) = Capture THEN 5
    ELSE IF move_type_of(mov) = EnPassantCapture THEN 6
    ELSE IF search_ctx.killers[search_ctx.ply][1] = <<mov>> THEN 7
    ELSE IF search_ctx.killers[search_ctx.ply][2] = <<mov>> THEN 8
    ELSE 9

\* C21: of two moves of different classes, the move of the class listed
\* higher gets the strictly higher score
ScoreFollowsClass ==
    unit.kind = "order" /\ unit.scores # <<>> =>
        (move_class(unit.a, unit.search_ctx) < move_class(unit.b, unit.search_ctx)
            => unit.scores[1] > unit.scores[2])

\* C22: a capture of a piece worth at least the capturing piece is never
\* judged losing, and a capture of a defended piece worth less than the
\* capturing piece, with no further attacker, is judged losing
SeeJudgesExchange ==
    unit.kind = "see" /\ unit.result # <<>>
        /\ move_type_of(unit.mov) \in {Capture, EnPassantCapture} =>
        LET from == get_from(unit.mov)
            to == get_to(unit.mov)
            mover == unit.board.side_to_move
            capturer == unit.board.pieces[from][1]
            captured == IF move_type_of(unit.mov) = EnPassantCapture THEN Pawn
                        ELSE unit.board.pieces[to][1]
            after == make_move(unit.board, unit.mov).b
            defended == is_square_attacked(to, toggle(mover), after)
            further == is_square_attacked(to, mover, after)
            judged_losing == unit.result[1]
        IN  /\ PIECE_VALUES[captured + 1] >= PIECE_VALUES[capturer + 1] => ~judged_losing
            /\ PIECE_VALUES[captured + 1] < PIECE_VALUES[capturer + 1]
                   /\ defended /\ ~further => judged_losing

\* C23: a FEN whose trailing fields are missing yields the board of the FEN
\* completed with the defaults w KQkq - 0 1
MissingFieldsDefault ==
    unit.kind = "fen" /\ unit.result # <<>> /\ Len(unit.fen) < 6 =>
        LET defaults == <<<<>>, <<"w">>, <<"K", "Q", "k", "q">>, <<"-">>, <<"0">>, <<"1">>>>
        IN  unit.result[1] = BoardNew(unit.fen \o SubSeq(defaults, Len(unit.fen) + 1, 6))

\* the ranks of a placement field: the runs of characters between slashes
RECURSIVE placement_ranks(_)
placement_ranks(part) ==
    IF \A i \in 1 .. Len(part) : part[i] # "/" THEN <<part>>
    ELSE LET slash == CHOOSE i \in 1 .. Len(part) :
                          part[i] = "/" /\ \A j \in 1 .. i - 1 : part[j] # "/"
         IN  <<SubSeq(part, 1, slash - 1)>>
                 \o placement_ranks(SubSeq(part, slash + 1, Len(part)))

\* the number of files a rank describes: a digit counts its value, any
\* other character one file
RECURSIVE rank_files(_)
rank_files(rank) ==
    IF rank = <<>> THEN 0
    ELSE (IF is_ascii_digit(Head(rank)) THEN DigitValue[Head(rank)] ELSE 1)
             + rank_files(Tail(rank))

\* the malformed classes of a FEN
unknown_piece(fen) ==
    \E i \in 1 .. Len(fen[1]) :
        LET chr == fen[1][i]
        IN  chr # "/" /\ ~is_ascii_digit(chr) /\ from_char(chr) = <<>>

wrong_ranks(fen) ==
    LET ranks == placement_ranks(fen[1])
    IN  Len(ranks) # 8 \/ \E r \in 1 .. Len(ranks) : rank_files(ranks[r]) # 8

wrong_en_passant(fen) ==
    /\ Len(fen) >= 4
    /\ fen[4] # <<"-">>
    /\ ~(Len(fen[4]) = 2 /\ square_from_uci(fen[4]) # <<>>)

wrong_halfmove(fen) ==
    /\ Len(fen) >= 5
    /\ \/ fen[5] = <<>>
       \/ \E i \in 1 .. Len(fen[5]) : ~is_ascii_digit(fen[5][i])

\* C24: Board::new returns an error for a FEN with an unknown piece
\* character, a rank of more or fewer than 8 files or a wrong number of
\* ranks, an en-passant field that is neither - nor a square, or a halfmove
\* field that is not an integer
MalformedFenIsError ==
    unit.kind = "fen" /\ unit.result # <<>> =>
        (unknown_piece(unit.fen) \/ wrong_ranks(unit.fen)
            \/ wrong_en_passant(unit.fen) \/ wrong_halfmove(unit.fen)
                => unit.result[1].err # "")

\* C25: a call of TT::store adds one to used when the entry it writes was
\* empty (never written) before, and leaves used unchanged when it
\* overwrites an entry or writes nothing
UsedCountsEmptySlots ==
    unit.kind = "store" /\ unit.last # <<>> =>
        LET old == unit.before.table[0]
            new == unit.tt.table[0]
            written == {j \in 1 .. BUCKET_SIZE : new[j] # old[j]}
        IN  unit.tt.used = unit.before.used
                + (IF \E j \in written : old[j] = TTEntry_default THEN 1 ELSE 0)

\* C26: two calls of toggle_piece with the same arguments, which meet its
\* precondition, restore every field of the board
ToggleTwiceRestores ==
    unit.kind = "toggle" /\ unit.calls = 2 => unit.board = unit.entry

\* C26 is exercised: a black piece has been put on an empty square, where
\* the board differed in every field the call maintains, and taken off again
ToggleWitness ==
    /\ unit.kind = "toggle"
    /\ unit.calls = 2
    /\ unit.color = Black
    /\ unit.entry.pieces[unit.square][1] = PieceNone
    /\ unit.piece_type = Queen
    /\ LET once == toggle_piece(unit.entry, unit.square, unit.piece_type, unit.color)
       IN  /\ once.pieces # unit.entry.pieces
           /\ once.bitboards # unit.entry.bitboards
           /\ once.occupancies # unit.entry.occupancies
           /\ once.zobrist # unit.entry.zobrist
           /\ once.material # unit.entry.material
           /\ once.bonus # unit.entry.bonus
           /\ once.phase # unit.entry.phase
    /\ unit.board = unit.entry

\* C27: when search leaves a node that had a legal move and no beta cutoff,
\* the bound it stores is the one implied by the best score and the window
\* the node was entered with: Exact when the best score lies strictly
\* between the entry alpha and beta, Upper when it is at most the entry alpha
StoredBoundFollowsEntryWindow ==
    (unit.kind = "tree" /\ unit.last_store # <<>> /\ unit.last_store[1].fn = "search")
        => unit.last_store[1].bound =
               Bound_from_score(unit.last_store[1].best_score,
                                unit.last_store[1].entry_alpha, unit.last_store[1].beta)

\* mov is a move of the position and is legal by the rules of chess
legal_in(position, mov) ==
    /\ \E i \in 1 .. Len(gen_color_moves(position)) : gen_color_moves(position)[i] = mov
    /\ rules_legal(position, mov, make_move(position, mov).b)

\* every move of the line is legal in the position reached by the moves
\* before it
RECURSIVE playable(_, _)
playable(position, line) ==
    \/ line = <<>>
    \/ /\ legal_in(position, line[1])
       /\ playable(make_move(position, line[1]).b, Tail(line))

\* C28: after every completed iteration the line of ply 0 starts with the
\* best move of the iteration and each of its moves is legal in the position
\* reached by playing the moves before it from the root
PvLineIsPlayable ==
    (unit.kind = "tree" /\ unit.completed # <<>>)
        => /\ unit.completed[1].pv_line # <<>>
           /\ unit.completed[1].pv_line[1] = unit.completed[1].best_move
           /\ playable(unit.entry_board, unit.completed[1].pv_line)

\* C29: when the root position has a legal move, the best move start_search
\* returns is a legal move of the root position, whenever the stop arrives
BestMoveIsLegal ==
    (/\ unit.kind = "tree"
     /\ unit.result # <<>>
     /\ \E i \in 1 .. Len(unit.move_list) : legal_in(unit.entry_board, unit.move_list[i]))
        => legal_in(unit.entry_board, unit.result[1])

\* C30: every call of search and quiescence returns with the board and the
\* history it was entered with, and after start_search has returned the
\* board and the history are those of its entry
BoardAndHistoryRestored ==
    unit.kind = "tree"
        => /\ unit.restored
           /\ unit.result # <<>>
                  => unit.board = unit.entry_board /\ unit.history = unit.entry_history

\* C31: no entry is stored from an aborted subtree: once a poll has answered
\* stop in a call of search or quiescence, no call that encloses it stores
\* into the table
NoStoreAfterStop ==
    (unit.kind = "tree" /\ unit.last_store # <<>>) => ~unit.last_store[1].after_stop

\* C32: a search started by `go` begins with the mode flag Normal, one
\* started by `go ponder` with Ponder, whatever was handled before the `go`
SearchStartsWithFreshMode ==
    unit.kind = "uci" =>
        \A w \in 1..Len(unit.workers) :
            unit.workers[w].start_mode = IF unit.workers[w].ponder THEN Ponder ELSE Normal

\* C33: at most one worker thread is alive at any time, and no more
\* `bestmove` lines are sent than `go` commands were handled
AtMostOneWorker ==
    unit.kind = "uci" =>
        /\ Cardinality(alive_workers(unit)) <= 1
        /\ unit.bestmoves <= unit.go_commands

\* the killer pair after a cutoff by mov
killers_installed(pair, mov) ==
    IF pair[1] = <<mov>> THEN pair ELSE <<<<mov>>, pair[1]>>

\* C34: a beta cutoff by a non-capture move at ply p updates the killer pair
\* of ply p (slot 0 moves to slot 1 and the cutting move is installed in
\* slot 0, unless it already is slot 0), and the two slots of a ply never
\* hold the same move
KillersUpdatedAtPly ==
    unit.kind = "tree" =>
        /\ \A p \in DOMAIN unit.killers :
              unit.killers[p][1] # <<>> => unit.killers[p][1] # unit.killers[p][2]
        /\ \A c \in {unit.last_cutoff[i] : i \in DOMAIN unit.last_cutoff} :
              move_type_of(c.mov) \notin {Capture, EnPassantCapture} =>
                  c.killers_after[c.ply] = killers_installed(c.killers_before[c.ply], c.mov)

\* the gravity formula of a counter old rewarded (sign 1) or punished (sign -1)
\* with bonus
gravity(old, sign, bonus) == old + sign * bonus - trunc_div(abs(bonus) * old, 20000)

\* the quiet moves tried before the cutting move of cutoff c
tried_quiet(c) ==
    {c.tried[i] : i \in {j \in DOMAIN c.tried : move_type_of(c.tried[j]) \notin {Capture, EnPassantCapture}}}

\* C35: a beta cutoff by a quiet move at a node of remaining depth d moves the
\* counter of the cutting move to old + d*d - d*d*old/HISTORY_MAX and the
\* counter of every quiet move tried earlier at the node to
\* old - d*d - d*d*old/HISTORY_MAX, and every counter stays within
\* [-HISTORY_MAX, HISTORY_MAX]
HistoryFollowsGravity ==
    unit.kind = "tree" =>
        /\ \A k \in DOMAIN unit.history_heuristic :
              unit.history_heuristic[k] >= -20000 /\ unit.history_heuristic[k] <= 20000
        /\ \A c \in {unit.last_cutoff[i] : i \in DOMAIN unit.last_cutoff} :
              move_type_of(c.mov) \notin {Capture, EnPassantCapture} =>
                  /\ HistoryHeuristics_get(c.history_after, get_from(c.mov), get_to(c.mov), c.color)
                       = gravity(HistoryHeuristics_get(c.history_before, get_from(c.mov), get_to(c.mov), c.color),
                                 1, c.depth * c.depth)
                  /\ \A q \in tried_quiet(c) :
                        HistoryHeuristics_get(c.history_after, get_from(q), get_to(q), c.color)
                          = gravity(HistoryHeuristics_get(c.history_before, get_from(q), get_to(q), c.color),
                                    -1, c.depth * c.depth)

\* C36: for every requested depth n iterative deepening runs only iterations
\* of depth 1..min(n, MAX_PLY), and every depth and ply passed to search and
\* used as an index there stays below MAX_PLY
IterationsWithinMaxPly ==
    unit.kind = "deepen" =>
        /\ unit.current_depth <= MAX_PLY
        /\ unit.current_depth <= unwrap_or(unit.go_depth, MAX_PLY)
        /\ \A c \in {unit.call[i] : i \in DOMAIN unit.call} :
              /\ c.depth < MAX_PLY
              /\ c.depth > 0 => c.ply < MAX_PLY

\* the king square, the rook corner and the colour of a castling right
right_of(flag) ==
    CASE flag = WK -> [king |-> 4, rook |-> 7, color |-> White]
      [] flag = WQ -> [king |-> 4, rook |-> 0, color |-> White]
      [] flag = BK -> [king |-> 60, rook |-> 63, color |-> Black]
      [] flag = BQ -> [king |-> 60, rook |-> 56, color |-> Black]

\* C37: a castling right is set only if the king of its colour stands on its
\* original square and the rook of its colour on the corner of the right;
\* make_move never adds a right, clears both rights of the mover when its
\* king moves, and clears the right of a corner when a rook leaves it or is
\* captured on it
RightsNeedKingAndRook ==
    pc # "idle" =>
        /\ \A flag \in {WK, WQ, BK, BQ} :
              HasRight(board.castling_rights, flag) =>
                  /\ board.pieces[right_of(flag).king] = <<King, right_of(flag).color>>
                  /\ board.pieces[right_of(flag).rook] = <<Rook, right_of(flag).color>>
        /\ pc = "made" =>
              \A flag \in {WK, WQ, BK, BQ} :
                 LET before == top.before[1]
                     from == get_from(current_move)
                     to == get_to(current_move)
                     r == right_of(flag)
                 IN  /\ HasRight(board.castling_rights, flag) => HasRight(before.castling_rights, flag)
                     /\ (before.pieces[from] = <<King, r.color>>
                         \/ (before.pieces[from] = <<Rook, r.color>> /\ from = r.rook)
                         \/ (before.pieces[to] = <<Rook, r.color>> /\ to = r.rook
                             /\ before.side_to_move # r.color))
                           => ~HasRight(board.castling_rights, flag)

\* C38: phase stays within 0..24 and the phase ratio of evaluate within
\* [0, 256], also after promotions
PhaseWithinTotal ==
    pc # "idle" =>
        /\ board.phase >= 0 /\ board.phase <= 24
        /\ (board.phase * PHASE_SCALE + (TOTAL_PHASE \div 2)) \div TOTAL_PHASE \in 0 .. 256

\* C39: make_move never increments a halfmove clock that is already 255
ClockStaysInByte ==
    (/\ pc = "made"
     /\ top.before[1].pieces[get_from(current_move)][1] # Pawn
     /\ move_type_of(current_move) # Capture) => top.before[1].halfmove_clock < 255

\* C40: in every time manager built by from_clock or from_millis the soft
\* limit does not exceed the hard limit
SoftWithinHard ==
    unit.kind = "time" =>
        \A t \in {unit.time[i] : i \in DOMAIN unit.time} : t.soft_limit <= t.hard_limit

---------------------------------------------------------------------------
(* Specifications *)

PerftIdle ==
    /\ board = EmptyBoard
    /\ frames = <<>>
    /\ pc = "idle"
    /\ arg = [depth |-> 0, legal |-> TRUE]
    /\ result = <<>>
    /\ tt = PerftTT_new
    /\ suite = [entry |-> 0, depth |-> 0]
    /\ toggle_ok = TRUE

\* no component is exercised on its own
UnitIdle == unit = [kind |-> "idle"]

\* perft, test_transposition and the search are not running
EngineIdle == PerftIdle /\ ABIdle /\ SearchIdle

\* perft over the suite
Init == PerftInit /\ ABIdle /\ SearchIdle /\ UnitIdle

Next == PerftCall \/ PerftMake \/ PerftCheck \/ PerftUndo \/ PerftReturn

Spec == Init /\ [][Next]_vars

\* test_transposition
InitAB == ABInit /\ PerftIdle /\ SearchIdle /\ UnitIdle

NextAB == TestTransposition \/ NextLine

SpecAB == InitAB /\ [][NextAB]_vars

\* a search under way and the protocol thread
InitSearch == SearchInit /\ PerftIdle /\ ABIdle /\ UnitIdle

NextSearch ==
    \/ StartSearch \/ StartMove \/ RootPoll \/ TreePoll \/ FinishMove \/ EndPoll
    \/ PonderHitStore \/ Guard \/ UciStop \/ UciPonderHitLoad \/ UciPonderHitStore

SpecSearch == InitSearch /\ [][NextSearch]_vars

\* a bucket of the transposition table shared by storing and probing threads
InitRace == EngineIdle /\ RaceInit

NextRace ==
    \/ \E w \in 1 .. NumWriters : RaceStoreBegin(w)
    \/ \E w \in 1 .. NumWriters : RaceWriteKey(w)
    \/ \E w \in 1 .. NumWriters : RaceWriteData(w)
    \/ RaceProbeBegin
    \/ RaceReadKey
    \/ RaceReadData

SpecRace == InitRace /\ [][NextRace]_vars

\* one thread storing into a bucket
InitStore == EngineIdle /\ StoreInit

NextStore == Store

SpecStore == InitStore /\ [][NextStore]_vars

\* a node stored at one ply and probed at another
InitMate == EngineIdle /\ MateInit

NextMate == MateStore \/ MateProbe

SpecMate == InitMate /\ [][NextMate]_vars

\* the zobrist history under position, go and the moves of the search
InitRep == EngineIdle /\ RepInit

NextRep == RepPush \/ RepGo \/ RepPop

SpecRep == InitRep /\ [][NextRep]_vars

\* the material test on boards of few pieces
InitMaterial == EngineIdle /\ MaterialInit

NextMaterial == MaterialTest

SpecMaterial == InitMaterial /\ [][NextMaterial]_vars

\* a call of quiescence; the thread that runs it keeps running
InitQuiescence == EngineIdle /\ QuiescenceInit

NextQuiescence ==
    \/ ReturnEarly
    \/ GenerateMoves
    \/ SkipMove
    \/ Recurse
    \/ AfterMove
    \/ LoopEnd

SpecQuiescence == InitQuiescence /\ [][NextQuiescence]_vars /\ WF_vars(NextQuiescence)

\* the first iteration of the search on the mate positions
InitRoot == EngineIdle /\ RootInit

NextRoot == RootMove \/ RootInfo

SpecRoot == InitRoot /\ [][NextRoot]_vars


\* the scores of two moves of one node
InitOrder == EngineIdle /\ OrderInit

NextOrder == OrderScore

SpecOrder == InitOrder /\ [][NextOrder]_vars

\* the static exchange evaluation of the captures of a position
InitSee == EngineIdle /\ SeeInit

NextSee == SeeMove

SpecSee == InitSee /\ [][NextSee]_vars

\* Board::new on well-formed, cut and malformed FENs
InitFen == EngineIdle /\ FenInit

NextFen == FenParse

SpecFen == InitFen /\ [][NextFen]_vars

\* two calls of toggle_piece with the same arguments
InitToggle == EngineIdle /\ ToggleInit

NextToggle == Toggle

SpecToggle == InitToggle /\ [][NextToggle]_vars

InitTree == EngineIdle /\ TreeInit

NextTree ==
    \/ IdStart
    \/ IdIterate
    \/ IdMove
    \/ IdAfter
    \/ IdEnd
    \/ SearchEnter
    \/ SearchMove
    \/ SearchAfter
    \/ SearchLeave
    \/ QuiescenceEnter
    \/ QuiescenceMove
    \/ QuiescenceAfter
    \/ QuiescenceLeave

SpecTree == InitTree /\ [][NextTree]_vars

NextTreeShared == NextTree \/ StaleStore

SpecTreeShared == InitTree /\ [][NextTreeShared]_vars

\* the protocol thread and its workers
InitUci == EngineIdle /\ UciInit

NextUci ==
    \/ CmdGo \/ CmdGoPerft \/ CmdStop \/ CmdPonderHit \/ CmdPonderHitStore
    \/ CmdNewGame \/ stop_and_join
    \/ WorkerPoll \/ WorkerHitStore \/ WorkerDepth \/ WorkerGuard \/ WorkerReply

SpecUci == InitUci /\ [][NextUci]_vars

\* the depths of iterative deepening
InitDeepen == EngineIdle /\ DeepenInit

NextDeepen == RootCall \/ Descend \/ Unwind \/ EndOfIteration

SpecDeepen == InitDeepen /\ [][NextDeepen]_vars

\* the walk over positions of a game
InitGame == GameInit /\ ABIdle /\ SearchIdle /\ UnitIdle

SpecGame == InitGame /\ [][Next]_vars

\* the time managers
InitTime == EngineIdle /\ TimeInit

NextTime == FromClock \/ FromMillis

SpecTime == InitTime /\ [][NextTime]_vars

=============================================================================
